---- MODULE Spec2Model ----
(***************************************************************************)
(* Decision / execution state machine of plugin-sendo-worker.              *)
(*                                                                         *)
(* DecisionProcessor.processDecisions iterates a batch of accept / reject  *)
(* decisions.  A reject is one UPDATE of the recommended_actions row.  An  *)
(* accept reads the row, UPDATEs it to "executing" and launches the        *)
(* detached processExecutingActions task, which re-reads the row, looks    *)
(* the capability up in runtime.actions, creates a room, dispatches the    *)
(* capability through runtime.processActions, reads the result from the    *)
(* runtime's stateCache and writes the outcome back to the row.            *)
(*                                                                         *)
(* Every await of the source is a step boundary: the code between two      *)
(* awaits runs atomically on the JavaScript event loop and is folded into  *)
(* the step that ends the earlier await.                                   *)
(***************************************************************************)
EXTENDS Integers, Sequences, FiniteSets, TLC

\* ------------------------------------------------------------------ bounds
MaxCalls  == 1   \* processDecisions invocations (they may overlap)
MaxBatch  == 2   \* decisions per invocation
MaxTasks  == 2   \* background executions launched in one behaviour
MaxTime   == 1   \* clock readings 0..MaxTime
MaxFaults == 1   \* store operations that throw in one behaviour
MaxRuns   == 1   \* runAnalysis invocations (they may overlap)
MaxRecs   == 2   \* recommendations one run generates
MaxActions == 2  \* DATA capabilities one execute call is given
MaxFlowActions == 3  \* capabilities registered in the host of a whole run
MaxGroups == 2   \* sub-type groups one select call is given
MaxRand == 2     \* distinct values Math.random() may yield
MaxSaves == 2    \* saveAnalysis calls of one behaviour
MaxRooms == 3    \* temporary rooms one cleanup call is given
MaxEnsure == 2   \* ensureAgentWorldExists calls (service starts) of one behaviour
MaxProcesses == 2  \* processes of the host a service may be started in
MaxInv == 2      \* capability invocations sharing the result registry
MaxUuid == 2     \* distinct values crypto.randomUUID() may yield

\* --------------------------------------------------------------- constants
NoTime == -1               \* SQL NULL of a timestamp column
NullText == "<null>"       \* SQL NULL of a text / varchar column

\* Rows present in recommended_actions, and an id that matches no row.  Every
\* statement of the store touches one row by primary key, so rows do not
\* interact and one row plus an unknown id exercise every path.
Ids   == {"r1"}
Ghost == "non-existent-id"
AllIds == Ids \cup {Ghost}

Verdicts == {"accept", "reject"}
Decisions == [actionId : AllIds, decision : Verdicts]

Callers == 1..MaxCalls
TaskIds == 1..MaxTasks

\* runtime.actions: the names of the capabilities registered in the host.
RuntimeActions == {"SWAP_TOKEN", "TRANSFER_TOKEN"}
\* actionType values a stored Recommendation may carry.
ActionTypes == {"SWAP_TOKEN", "NON_EXISTENT_ACTION"}


\* Messages of the errors that reach the catch of processExecutingActions.
ActionNotFoundMsg == "Action not found"
StoreErrorMsg     == "Failed query: connection terminated"
HostErrors        == {"Host dispatch failed", "Entity not found"}
NoResultMsg       == "No result returned from action"
ExecFailedDefault == "Action execution failed"

\* ------------------------------------------------------------ pure helpers

\* The elements of a list.
Range(seq) == { seq[i] : i \in 1..Len(seq) }

\* String.prototype.includes
Includes(s, sub) ==
  \E i \in 1..(Len(s) - Len(sub) + 1) : SubSeq(s, i, i + Len(sub) - 1) = sub

\* `Action ${recommendedAction.actionType} not found in runtime`
RuntimeNotFoundMsg(actionType) == "Action " \o actionType \o " not found in runtime"

\* Mutant: the heuristic on the message is dropped.
CatchErrorType_AlwaysTechnical(errorMessage) == "technical"

\* errorMessage.includes('not found') ? 'initialization' : 'technical'
CatchErrorType(errorMessage) ==
  IF Includes(errorMessage, "not found") THEN "initialization" ELSE "technical"

\* ActionResult values the host's capability handlers produce.  text, data
\* and values are "" when the handler left them undefined; error is absent
\* ("none"), a string, an Error object, or some other truthy object.
NoError == [kind |-> "none", msg |-> ""]
ActionResults ==
  { [success |-> TRUE,  text |-> "Swap executed", data |-> "d1", values |-> "",
     error |-> NoError],
    [success |-> TRUE,  text |-> "", data |-> "", values |-> "v1",
     error |-> NoError],
    [success |-> FALSE, text |-> "Insufficient funds", data |-> "", values |-> "",
     error |-> [kind |-> "string", msg |-> "Insufficient balance"]],
    [success |-> FALSE, text |-> "", data |-> "", values |-> "",
     error |-> [kind |-> "Error", msg |-> "Swap failed"]],
    [success |-> FALSE, text |-> "", data |-> "", values |-> "",
     error |-> NoError] }

\* What runtime.processActions leaves in stateCache under
\* `${messageId}_action_results`: a list of ActionResult, possibly empty.
CachedResults == {<<>>} \cup { <<ar>> : ar \in ActionResults }

\* getActionResultFromCache: the first cached result, or null (<<>>).
getActionResultFromCache(cache, messageId) ==
  LET actionResults == cache[messageId]
  IN IF Len(actionResults) > 0 THEN <<actionResults[1]>> ELSE <<>>

\* extractErrorMessage(actionResult, defaultMessage) for a non-null result.
extractErrorMessage(actionResult, defaultMessage) ==
  IF actionResult.error.kind # "none"
  THEN IF actionResult.error.kind \in {"Error", "string"}
       THEN actionResult.error.msg
       ELSE defaultMessage
  ELSE IF ~actionResult.success THEN defaultMessage ELSE NullText

\* a || b on possibly-undefined payloads ("" is undefined)
OrElse(a, b) == IF a # "" THEN a ELSE b

\* Mutant: the fallback of data to values is forgotten.
ResultData_DropsValues(actionResult, executedAt) ==
  [ text |-> IF actionResult.text # ""
             THEN [kind |-> "text", of |-> actionResult.text]
             ELSE [kind |-> "json", of |-> OrElse(actionResult.data, actionResult.values)],
    data |-> actionResult.data,
    timestamp |-> executedAt ]

\* resultData of the success branch
ResultData(actionResult, executedAt) ==
  [ text |-> IF actionResult.text # ""
             THEN [kind |-> "text", of |-> actionResult.text]
             ELSE [kind |-> "json", of |-> OrElse(actionResult.data, actionResult.values)],
    data |-> OrElse(actionResult.data, actionResult.values),
    timestamp |-> executedAt ]

\* The Analysis the Recommendations of the initial store belong to.
SeedAnalysis == "analysis-0"

\* A freshly generated Recommendation row.
PendingRow(actionType) ==
  [ analysisId |-> SeedAnalysis,
    actionType |-> actionType, status |-> "pending",
    decidedAt |-> NoTime, executedAt |-> NoTime,
    result |-> <<>>, error |-> NullText, errorType |-> NullText ]

\* --------------------------------------------------------------- variables
VARIABLES
  store,       \* recommended_actions: id -> row
  now,         \* the clock read by new Date()
  faults,      \* store operations that have thrown so far
  calls,       \* per processDecisions invocation: position and locals
  tasks,       \* per launched processExecutingActions task: position and locals
  nTasks,      \* number of tasks launched so far
  stateCache,  \* runtime.stateCache, keyed by the task's fresh messageId
  analysisResults, \* analysis_results: the rows, as a set
  reqs,        \* per POST /analysis request: position, responses sent, run locals
  exec,        \* one DataExecutor.execute invocation
  sel,         \* one DataSelector.select invocation
  gen,         \* one RecommendationGenerator.generate invocation
  cat,         \* one ActionCategorizer.categorize invocation
  repo,        \* the two tables as AnalysisRepository writes and reads them
  clean,       \* one WorldManager.cleanupAnalysisRooms invocation
  world,       \* the host's worlds and the ensureAgentWorldExists calls
  corr         \* the host's result registry and the capability invocations using it

\* The state of the analysis pipeline, which no step of the decision path
\* touches.
stages == <<gen, cat, repo, clean, world, corr>>
pipeline == <<analysisResults, reqs, exec, sel, stages>>

vars == <<store, now, faults, calls, tasks, nTasks, stateCache,
          analysisResults, reqs, exec, sel, gen, cat, repo, clean, world, corr>>

\* response: what decideActionsHandler sent without reaching
\* processDecisions (status 0: nothing sent so far); request: the body of the
\* request it did not pass on; setAt: the decidedAt of the UPDATE the call is
\* awaiting, read from the clock when the UPDATE was issued.
NoResponse == [status |-> 0, code |-> ""]
NoRequest == [isArray |-> FALSE, decisions |-> <<>>]
IdleCall == [pc |-> "idle", decisions |-> <<>>, accepted |-> <<>>,
             rejected |-> <<>>, action |-> <<>>, setAt |-> NoTime,
             response |-> NoResponse, request |-> NoRequest]
IdleTask == [pc |-> "unused", actionId |-> Ghost, errorMessage |-> "",
             executedAt |-> NoTime, actionResult |-> <<>>,
             room |-> FALSE, dispatched |-> FALSE, looked |-> FALSE,
             lost |-> FALSE]

\* runtime.agentId
Agent == "agent-1"

Runs == 1..MaxRuns

\* analysis_results before any run of the behaviour: the seeded Analysis.
SeedRows == { [id |-> SeedAnalysis, agentId |-> Agent] }

\* A POST /analysis request, or a direct runAnalysis call, not made yet.
\* responses: what the handler wrote to res; recs: the recommendations the
\* run generated, each by whether its confidence is set; recCalled:
\* recommendationGenerator.generate was called; failedAt, error: the stage
\* that threw and its message; settled: how the caller consumed the run's
\* promise; roomIds: how many room ids execute has tracked in createdRoomIds;
\* rooms: the temporary rooms of the run that exist in the host; cleaned: how
\* many deleteRoom calls of the cleanup have settled.
IdleReq == [pc |-> "idle", caller |-> "", responses |-> <<>>, recs |-> <<>>,
            recCalled |-> FALSE, failedAt |-> "", error |-> "", settled |-> "",
            roomIds |-> 0, rooms |-> 0, cleaned |-> 0]

\* The calls DataExecutor has made to its collaborators, by callee.
NoHostCalls == [getWorldId |-> 0, useModel |-> 0, ensureRoomExists |-> 0,
                processActions |-> 0, stateCache |-> 0]

\* DataExecutor.execute and DataSelector.select not invoked yet.  hostCalls:
\* the calls execute has made; hostRooms: the rooms it has created in the
\* host, by id.
IdleExec == [pc |-> "idle", dataActions |-> <<>>, pipes |-> <<>>,
             createdRoomIds |-> <<>>, results |-> <<>>,
             hostCalls |-> NoHostCalls, hostRooms |-> {}]
IdleSel == [pc |-> "idle", groups |-> <<>>, outs |-> <<>>, relevantActions |-> <<>>]

\* RecommendationGenerator.generate not invoked yet.  outs: one entry per
\* group callback; result: the list generate returned.
IdleGen == [pc |-> "idle", analysisId |-> "", groups |-> <<>>, outs |-> <<>>,
            result |-> <<>>]

\* ActionCategorizer.categorize not invoked yet.  calls: one entry per
\* categorizeAction promise; the three outputs of the returned object.
IdleCat == [pc |-> "idle", allActions |-> <<>>, calls |-> <<>>, error |-> "",
            dataActions |-> <<>>, actionActions |-> <<>>, classifications |-> <<>>]

\* The repository over two empty tables, and no call in progress.
\* analysisResults, recommendedActions: the rows of the two tables; saving:
\* the arguments of the saveAnalysis call in progress; saved: the arguments
\* of the saveAnalysis calls that returned; nSaves: the calls made; read: what
\* the reader's last call returned, as [op, arg, value], until the reader
\* calls again or saveAnalysis is called or inserts; reading: the row a getAnalysisResult found with its first query
\* while it awaits its second.
IdleRepo == [pc |-> "idle", analysisResults |-> {}, recommendedActions |-> {},
             saving |-> <<>>, saved |-> <<>>, nSaves |-> 0, read |-> <<>>,
             reading |-> <<>>]

\* WorldManager.cleanupAnalysisRooms not invoked yet.
IdleClean == [pc |-> "idle", roomIds |-> <<>>, at |-> 0, deleteCalls |-> <<>>,
              warned |-> <<>>]

\* No world in the host, no service started.
\* existed: the world was in the host when the call was made; looked:
\* runtime.getWorld answered; error: the message of the error the call
\* rethrew.
IdleEnsure == [pc |-> "idle", agentId |-> "", worldId |-> <<>>, existed |-> FALSE,
               looked |-> FALSE, createCalls |-> 0, createdAt |-> NoTime,
               error |-> ""]
IdleWorld == [worlds |-> <<>>, calls |-> [c \in 1..MaxEnsure |-> IdleEnsure]]

\* Nothing in the result registry, no invocation started.
\* produced: what the invocation's own dispatch left in the registry; read:
\* what the invocation looked up.
IdleInv == [pc |-> "idle", kind |-> "", messageId |-> 0, roomId |-> 0,
            produced |-> <<>>, read |-> <<>>]
IdleCorr == [cache |-> <<>>, inv |-> [i \in 1..MaxInv |-> IdleInv]]

\* The analysis pipeline at rest.
PipelineIdle ==
  /\ analysisResults = SeedRows
  /\ reqs = [r \in Runs |-> IdleReq]
  /\ exec = IdleExec
  /\ sel = IdleSel
  /\ gen = IdleGen
  /\ cat = IdleCat
  /\ repo = IdleRepo
  /\ clean = IdleClean
  /\ world = IdleWorld
  /\ corr = IdleCorr

\* The decision path at rest, with one pending Recommendation per id.
DecisionIdle ==
  /\ store = [id \in Ids |-> PendingRow("SWAP_TOKEN")]
  /\ now = 0
  /\ faults = 0
  /\ calls = [c \in Callers |-> IdleCall]
  /\ tasks = [t \in TaskIds |-> IdleTask]
  /\ nTasks = 0
  /\ stateCache = [t \in TaskIds |-> <<>>]

Init ==
  /\ store \in [Ids -> {PendingRow(t) : t \in ActionTypes}]
  /\ now = 0
  /\ faults = 0
  /\ calls = [c \in Callers |-> IdleCall]
  /\ tasks = [t \in TaskIds |-> IdleTask]
  /\ nTasks = 0
  /\ stateCache = [t \in TaskIds |-> <<>>]
  /\ PipelineIdle

\* ------------------------------------------------------------ store access

\* getActionById: the row as a RecommendedAction; throws when no row matches.
getActionById(db, actionId) == [id |-> actionId] @@ db[actionId]

\* db.update(recommendedActions).set(fields).where(eq(id, actionId)):
\* overwrites the named columns of the matching row; matches no row and
\* succeeds when the id is unknown.
dbUpdate(db, actionId, fields) ==
  IF actionId \in DOMAIN db
  THEN [db EXCEPT ![actionId] =
          [f \in DOMAIN db[actionId] |->
             IF f \in DOMAIN fields THEN fields[f] ELSE db[actionId][f]]]
  ELSE db

\* A store operation may throw (connection lost, query failed).
CanFault == faults < MaxFaults

\* ------------------------------------------------------- processDecisions

\* Accept decisions not yet turned into a launched task.
AcceptsIn(ds) == Cardinality({i \in 1..Len(ds) : ds[i].decision = "accept"})
RECURSIVE SumAccepts(_)
SumAccepts(S) ==
  IF S = {} THEN 0
  ELSE LET c == CHOOSE x \in S : TRUE
       IN AcceptsIn(calls[c].decisions) + SumAccepts(S \ {c})

\* The decisions arrays a request may carry.
Batches == UNION { [1..n -> Decisions] : n \in 0..MaxBatch }

\* The loop reaches the decisions ds at time at: a reject builds its UPDATE,
\* decidedAt: new Date() included, before the await suspends the call; an
\* accept first awaits getActionById and has read no clock yet.
IssuedAt(ds, at) ==
  IF ds # <<>> /\ Head(ds).decision = "reject" THEN at ELSE NoTime

\* processDecisions(decisions) is entered and runs to its first await.
StartCall(c, ds) ==
  /\ calls[c].pc = "idle"
  /\ \A b \in Callers : b < c => calls[b].pc # "idle"   \* invocations are numbered in order of arrival
  /\ nTasks + SumAccepts(Callers) + AcceptsIn(ds) <= MaxTasks
  /\ calls' = [calls EXCEPT ![c] = [IdleCall EXCEPT !.pc = "loop", !.decisions = ds,
                                                    !.setAt = IssuedAt(ds, now)]]
  /\ UNCHANGED <<store, now, faults, tasks, nTasks, stateCache, pipeline>>

\* The for loop is at a decision with the given verdict.
AtDecision(c, verdict) ==
  /\ calls[c].pc = "loop"
  /\ calls[c].decisions # <<>>
  /\ Head(calls[c].decisions).decision = verdict

\* this.processExecutingActions(actionIds): the task starts and suspends at
\* its first await, the re-fetch of the row.
LaunchedTasks(actionId) ==
  [tasks EXCEPT ![nTasks + 1] = [IdleTask EXCEPT !.pc = "fetch", !.actionId = actionId]]

\* Mutant: the reject also stamps executedAt.
RejectFields_StampsExecuted(at) ==
  [status |-> "rejected", decidedAt |-> at, executedAt |-> at]

\* reject branch: the columns the UPDATE sets.
RejectFields(at) == [status |-> "rejected", decidedAt |-> at]

\* reject branch: the UPDATE succeeds (also when it matches no row) and
\* writes the decidedAt it was issued with.
Reject(c) ==
  /\ AtDecision(c, "reject")
  /\ LET actionId == Head(calls[c].decisions).actionId
         rest == Tail(calls[c].decisions)
     IN /\ store' = dbUpdate(store, actionId, RejectFields(calls[c].setAt))
        /\ calls' = [calls EXCEPT ![c].decisions = rest,
                                  ![c].setAt = IssuedAt(rest, now),
                                  ![c].rejected = Append(@, [actionId |-> actionId,
                                                             status |-> "rejected"])]
  /\ UNCHANGED <<now, faults, tasks, nTasks, stateCache, pipeline>>

\* reject branch: the UPDATE throws; the catch of the loop logs and skips.
RejectThrows(c) ==
  /\ AtDecision(c, "reject")
  /\ CanFault
  /\ faults' = faults + 1
  /\ calls' = [calls EXCEPT ![c].decisions = Tail(@),
                            ![c].setAt = IssuedAt(Tail(calls[c].decisions), now)]
  /\ UNCHANGED <<store, now, tasks, nTasks, stateCache, pipeline>>

\* executeActions: getActionById returns the row, and the UPDATE to
\* "executing" is issued with decidedAt: new Date().
AcceptFetch(c) ==
  /\ AtDecision(c, "accept")
  /\ Head(calls[c].decisions).actionId \in DOMAIN store
  /\ calls' = [calls EXCEPT ![c].pc = "update",
                            ![c].setAt = now,
                            ![c].action = <<getActionById(store, Head(calls[c].decisions).actionId)>>]
  /\ UNCHANGED <<store, now, faults, tasks, nTasks, stateCache, pipeline>>

\* executeActions: getActionById throws ("Action not found" when no row has
\* the id, or a store error of the SELECT, whatever the id).  The inner
\* catch logs; the background task is launched all the same and
\* executeActions returns [].
AcceptFetchThrows(c) ==
  /\ AtDecision(c, "accept")
  /\ LET actionId == Head(calls[c].decisions).actionId
     IN /\ \/ actionId \notin DOMAIN store /\ faults' = faults
           \/ CanFault /\ faults' = faults + 1
        /\ tasks' = LaunchedTasks(actionId)
  /\ nTasks' = nTasks + 1
  /\ calls' = [calls EXCEPT ![c].decisions = Tail(@),
                            ![c].setAt = IssuedAt(Tail(calls[c].decisions), now)]
  /\ UNCHANGED <<store, now, stateCache, pipeline>>

\* Mutant: the accept forgets decidedAt.
ExecutingFields_NoDecidedAt(at) == [status |-> "executing"]

\* executeActions: the columns the UPDATE sets.
ExecutingFields(at) == [status |-> "executing", decidedAt |-> at]

\* executeActions: the UPDATE to "executing" succeeds and writes the
\* decidedAt it was issued with; the action is pushed with status executing
\* and a decidedAt read from the clock now, the background task is launched,
\* and the accept branch of processDecisions pushes executingActions[0].
AcceptUpdate(c) ==
  /\ calls[c].pc = "update"
  /\ LET actionId == Head(calls[c].decisions).actionId
         action == calls[c].action[1]
         rest == Tail(calls[c].decisions)
     IN /\ store' = dbUpdate(store, actionId, ExecutingFields(calls[c].setAt))
        /\ tasks' = LaunchedTasks(actionId)
        /\ calls' = [calls EXCEPT ![c].pc = "loop",
                                  ![c].decisions = rest,
                                  ![c].setAt = IssuedAt(rest, now),
                                  ![c].action = <<>>,
                                  ![c].accepted = Append(@, [action EXCEPT !.status = "executing",
                                                                           !.decidedAt = now])]
  /\ nTasks' = nTasks + 1
  /\ UNCHANGED <<now, faults, stateCache, pipeline>>

\* executeActions: the UPDATE to "executing" throws; the inner catch logs,
\* the background task is launched all the same, executeActions returns [].
AcceptUpdateThrows(c) ==
  /\ calls[c].pc = "update"
  /\ CanFault
  /\ faults' = faults + 1
  /\ tasks' = LaunchedTasks(Head(calls[c].decisions).actionId)
  /\ nTasks' = nTasks + 1
  /\ calls' = [calls EXCEPT ![c].pc = "loop", ![c].decisions = Tail(@), ![c].action = <<>>,
                            ![c].setAt = IssuedAt(Tail(calls[c].decisions), now)]
  /\ UNCHANGED <<store, now, stateCache, pipeline>>

\* processDecisions returns { accepted, rejected }.
Return(c) ==
  /\ calls[c].pc = "loop"
  /\ calls[c].decisions = <<>>
  /\ calls' = [calls EXCEPT ![c].pc = "done"]
  /\ UNCHANGED <<store, now, faults, tasks, nTasks, stateCache, pipeline>>

\* ---------------------------------------------------- decideActionsHandler

\* The elements a decisions array of a request body may hold: null, or an
\* object whose actionId is a string ("" when empty or missing) and whose
\* decision is any string.
NullItem == [kind |-> "null", actionId |-> "", decision |-> ""]
Items ==
  {NullItem} \cup
  { [kind |-> "object", actionId |-> a, decision |-> d] :
      a \in AllIds \cup {""}, d \in Verdicts \cup {"maybe"} }

\* req.body: decisions is an array of items, or is missing / not an array.
Bodies ==
  {NoRequest} \cup
  { [isArray |-> TRUE, decisions |-> ds] :
      ds \in UNION { [1..n -> Items] : n \in 0..MaxBatch } }

\* The validation loop from element i on: destructuring a null element
\* throws a TypeError; otherwise the first offending element decides the
\* error code.
RECURSIVE validateFrom(_, _)
validateFrom(ds, i) ==
  IF i > Len(ds) THEN "ok"
  ELSE IF ds[i].kind = "null" THEN "TypeError"
  ELSE IF ds[i].actionId = "" THEN "INVALID_REQUEST"
  ELSE IF ds[i].decision \notin {"accept", "reject"} THEN "INVALID_DECISION"
  ELSE validateFrom(ds, i + 1)

\* The checks of the handler before it calls processDecisions.
validateDecisions(body) ==
  IF ~body.isArray \/ Len(body.decisions) = 0 THEN "INVALID_REQUEST"
  ELSE validateFrom(body.decisions, 1)

\* The handler does not reach processDecisions.
Refused(c, pc, status, code, body) ==
  /\ calls' = [calls EXCEPT ![c] = [IdleCall EXCEPT !.pc = pc,
                                                    !.response = [status |-> status, code |-> code],
                                                    !.request = body]]
  /\ UNCHANGED <<store, now, faults, tasks, nTasks, stateCache, pipeline>>

\* POST /actions/decide: the service lookup and the validation run without
\* an await; a valid request enters processDecisions, whose result the
\* handler sends with 200 once Return has happened.
decideActionsHandler(c, body, workerService) ==
  /\ calls[c].pc = "idle"
  /\ \A b \in Callers : b < c => calls[b].pc # "idle"
  /\ IF ~workerService
     THEN Refused(c, "sent", 500, "SERVICE_NOT_FOUND", NoRequest)
     ELSE LET v == validateDecisions(body)
          IN IF v = "ok"
             THEN StartCall(c, [i \in 1..Len(body.decisions) |->
                                  [actionId |-> body.decisions[i].actionId,
                                   decision |-> body.decisions[i].decision]])
             ELSE IF v = "TypeError"
             THEN Refused(c, "threw", 0, "", body)
             ELSE Refused(c, "sent", 400, v, body)

\* ------------------------------------------------ processExecutingActions

AtTask(t, pc) == tasks[t].pc = pc

\* The task's promise settles: its locals are gone, what it did stays.
Finished(task) ==
  [task EXCEPT !.pc = "done", !.errorMessage = "", !.executedAt = NoTime,
               !.actionResult = <<>>]

\* The task enters its catch block: errorMessage is kept and new Date() is
\* read for executedAt before the failure UPDATE is awaited.
EnterCatch(t, errorMessage) ==
  tasks' = [tasks EXCEPT ![t].pc = "catch", ![t].errorMessage = errorMessage,
                         ![t].executedAt = now]

\* 1-2. The row is re-fetched and its actionType names a registered
\* capability; ensureRoomExists is called.
RefetchOk(t) ==
  /\ AtTask(t, "fetch")
  /\ tasks[t].actionId \in DOMAIN store
  /\ getActionById(store, tasks[t].actionId).actionType \in RuntimeActions
  /\ tasks' = [tasks EXCEPT ![t].pc = "room"]
  /\ UNCHANGED <<store, now, faults, calls, nTasks, stateCache, pipeline>>

\* 2. No capability of runtime.actions has the row's actionType.
RefetchNotInRuntime(t) ==
  /\ AtTask(t, "fetch")
  /\ tasks[t].actionId \in DOMAIN store
  /\ LET recommendedAction == getActionById(store, tasks[t].actionId)
     IN /\ recommendedAction.actionType \notin RuntimeActions
        /\ EnterCatch(t, RuntimeNotFoundMsg(recommendedAction.actionType))
  /\ UNCHANGED <<store, now, faults, calls, nTasks, stateCache, pipeline>>

\* 1. getActionById throws "Action not found".
RefetchNotFound(t) ==
  /\ AtTask(t, "fetch")
  /\ tasks[t].actionId \notin DOMAIN store
  /\ EnterCatch(t, ActionNotFoundMsg)
  /\ UNCHANGED <<store, now, faults, calls, nTasks, stateCache, pipeline>>

\* 1. The SELECT of getActionById rejects with a store error, whether or
\* not a row has the id.
RefetchThrows(t) ==
  /\ AtTask(t, "fetch")
  /\ CanFault
  /\ faults' = faults + 1
  /\ EnterCatch(t, StoreErrorMsg)
  /\ UNCHANGED <<store, now, calls, nTasks, stateCache, pipeline>>

\* 3. ensureRoomExists resolves: the room exists; runtime.processActions is
\* called with the fresh messageId.
RoomOk(t) ==
  /\ AtTask(t, "room")
  /\ tasks' = [tasks EXCEPT ![t].pc = "dispatch", ![t].room = TRUE, ![t].dispatched = TRUE]
  /\ UNCHANGED <<store, now, faults, calls, nTasks, stateCache, pipeline>>

\* 3. ensureRoomExists throws.
RoomThrows(t, msg) ==
  /\ AtTask(t, "room")
  /\ EnterCatch(t, msg)
  /\ UNCHANGED <<store, now, faults, calls, nTasks, stateCache, pipeline>>

\* 4-5. runtime.processActions resolves, having left `cached` in the
\* stateCache under the task's messageId; the result is looked up and
\* executedAt is read; the outcome UPDATE is issued.
DispatchReturns(t, cached) ==
  /\ AtTask(t, "dispatch")
  /\ stateCache' = [stateCache EXCEPT ![t] = cached]
  /\ tasks' = [tasks EXCEPT ![t].pc = "write",
                            ![t].looked = TRUE,
                            ![t].actionResult = getActionResultFromCache(stateCache', t),
                            ![t].executedAt = now]
  /\ UNCHANGED <<store, now, faults, calls, nTasks, pipeline>>

\* 4. runtime.processActions throws.
DispatchThrows(t, msg) ==
  /\ AtTask(t, "dispatch")
  /\ EnterCatch(t, msg)
  /\ UNCHANGED <<store, now, faults, calls, nTasks, stateCache, pipeline>>

\* Mutant: the failure branches do not set errorType.
OutcomeFields_NoErrorType(actionResult, executedAt) ==
  IF actionResult # <<>>
  THEN IF actionResult[1].success
       THEN [status |-> "completed",
             result |-> <<ResultData(actionResult[1], executedAt)>>,
             error |-> NullText,
             executedAt |-> executedAt]
       ELSE [status |-> "failed",
             error |-> extractErrorMessage(actionResult[1], ExecFailedDefault),
             executedAt |-> executedAt]
  ELSE [status |-> "failed",
        error |-> NoResultMsg,
        executedAt |-> executedAt]

\* 6. The columns written for the looked-up result.
OutcomeFields(actionResult, executedAt) ==
  IF actionResult # <<>>
  THEN IF actionResult[1].success
       THEN [status |-> "completed",
             result |-> <<ResultData(actionResult[1], executedAt)>>,
             error |-> NullText,
             executedAt |-> executedAt]
       ELSE [status |-> "failed",
             error |-> extractErrorMessage(actionResult[1], ExecFailedDefault),
             errorType |-> "execution",
             executedAt |-> executedAt]
  ELSE [status |-> "failed",
        error |-> NoResultMsg,
        errorType |-> "execution",
        executedAt |-> executedAt]

\* 6. The outcome UPDATE succeeds.
WriteOutcome(t) ==
  /\ AtTask(t, "write")
  /\ store' = dbUpdate(store, tasks[t].actionId,
                       OutcomeFields(tasks[t].actionResult, tasks[t].executedAt))
  /\ tasks' = [tasks EXCEPT ![t] = Finished(@)]
  /\ UNCHANGED <<now, faults, calls, nTasks, stateCache, pipeline>>

\* 6. The outcome UPDATE throws.
WriteThrows(t) ==
  /\ AtTask(t, "write")
  /\ CanFault
  /\ faults' = faults + 1
  /\ EnterCatch(t, StoreErrorMsg)
  /\ UNCHANGED <<store, now, calls, nTasks, stateCache, pipeline>>

\* catch: the columns written for a caught error.
CatchFields(errorMessage, executedAt) ==
  [status |-> "failed",
   error |-> errorMessage,
   errorType |-> CatchErrorType(errorMessage),
   executedAt |-> executedAt]

\* catch: the failure UPDATE succeeds.
CatchWrite(t) ==
  /\ AtTask(t, "catch")
  /\ store' = dbUpdate(store, tasks[t].actionId,
                       CatchFields(tasks[t].errorMessage, tasks[t].executedAt))
  /\ tasks' = [tasks EXCEPT ![t] = Finished(@)]
  /\ UNCHANGED <<now, faults, calls, nTasks, stateCache, pipeline>>

\* catch: the failure UPDATE throws too; the inner catch only logs.
CatchWriteThrows(t) ==
  /\ AtTask(t, "catch")
  /\ CanFault
  /\ faults' = faults + 1
  /\ tasks' = [tasks EXCEPT ![t] = [Finished(@) EXCEPT !.lost = TRUE]]
  /\ UNCHANGED <<store, now, calls, nTasks, stateCache, pipeline>>

\* Time passes between two readings of the clock.
Tick ==
  /\ now < MaxTime
  /\ now' = now + 1
  /\ UNCHANGED <<store, faults, calls, tasks, nTasks, stateCache, pipeline>>

\* ------------------------------------------------------------- runAnalysis

\* The message of an error thrown by runtime.useModel.
LlmError == "LLM request failed"

\* What no step of the analysis run touches.
decisionPath == <<now, faults, calls, tasks, nTasks, stateCache>>

\* crypto.randomUUID() of run r, and the id of its k-th recommendation.
AnalysisId(r) == "analysis-" \o ToString(r)
RecId(r, k) == "rec-" \o ToString(r) \o "-" \o ToString(k)

\* What recommendationGenerator.generate may return: per recommendation,
\* whether the model's output carries a confidence.
RecLists == UNION { [1..n -> BOOLEAN] : n \in 0..MaxRecs }

\* sendSuccess / sendError: writeHead and end on res.
Respond(req, status, code) ==
  [req EXCEPT !.responses = Append(@, [status |-> status, code |-> code])]

\* Mutant: the acknowledgment is not sent when the run is launched.
Acknowledge_Nothing(req) == req

\* sendSuccess(res, { status: 'processing', ... }, 201)
Acknowledge(req) == Respond(req, 201, "processing")

\* runAnalysis(agentId) is called and suspends at its first await, the
\* categorization.
Launched(req, caller) == [req EXCEPT !.pc = "categorize", !.caller = caller]

\* The catch of runAnalysis logs and rethrows: the promise rejects.  The
\* route consumes the rejection in its .catch (logging); a direct caller
\* gets the exception.
Failed(req, msg) ==
  [req EXCEPT !.pc = "failed", !.failedAt = req.pc, !.error = msg,
              !.settled = IF req.caller = "route" THEN "logged" ELSE "thrown"]

\* POST /analysis: the service lookup, then the wallet balance is awaited.
runAnalysisHandler(r, workerService) ==
  /\ reqs[r].pc = "idle"
  /\ \A q \in Runs : q < r => reqs[q].pc # "idle"
  /\ reqs' = [reqs EXCEPT ![r] =
       IF workerService
       THEN [@ EXCEPT !.pc = "wallet", !.caller = "route"]
       ELSE [Respond(@, 500, "SERVICE_NOT_FOUND") EXCEPT !.pc = "closed", !.caller = "route"]]
  /\ UNCHANGED <<store, analysisResults, decisionPath, exec, sel, stages>>

\* checkWalletBalance resolves: 402 on an insufficient balance; otherwise
\* the acknowledgment is sent and the run is launched without being awaited.
WalletChecked(r, hasBalance) ==
  /\ reqs[r].pc = "wallet"
  /\ reqs' = [reqs EXCEPT ![r] =
       IF hasBalance
       THEN Launched(Acknowledge(@), "route")
       ELSE [Respond(@, 402, "INSUFFICIENT_BALANCE") EXCEPT !.pc = "closed"]]
  /\ UNCHANGED <<store, analysisResults, decisionPath, exec, sel, stages>>

\* checkWalletBalance throws: 500, no run.
WalletThrows(r) ==
  /\ reqs[r].pc = "wallet"
  /\ reqs' = [reqs EXCEPT ![r] =
       [Respond(@, 500, "WALLET_CHECK_FAILED") EXCEPT !.pc = "closed"]]
  /\ UNCHANGED <<store, analysisResults, decisionPath, exec, sel, stages>>

\* service.runAnalysis(agentId) called and awaited by its caller.
RunDirect(r) ==
  /\ reqs[r].pc = "idle"
  /\ \A q \in Runs : q < r => reqs[q].pc # "idle"
  /\ reqs' = [reqs EXCEPT ![r] = Launched(@, "direct")]
  /\ UNCHANGED <<store, analysisResults, decisionPath, exec, sel, stages>>

\* Steps 1-4 in order; the step after the execution of the DATA
\* capabilities is the Insight Generator's inference call.
NextStage(pc) ==
  CASE pc = "categorize" -> "collect"
    [] pc = "collect"    -> "select"
    [] pc = "select"     -> "execute"
    [] pc = "execute"    -> "insight"

\* 1-3. categorize, collect or select resolves.
StageReturns(r) ==
  /\ reqs[r].pc \in {"categorize", "collect", "select"}
  /\ reqs' = [reqs EXCEPT ![r].pc = NextStage(@)]
  /\ UNCHANGED <<store, analysisResults, decisionPath, exec, sel, stages>>

\* 4. inside execute, the trigger inference of a capability resolved: its
\* room id is drawn and pushed to createdRoomIds.
RoomTracked(req) == [req EXCEPT !.roomIds = @ + 1]

\* 4. inside execute, runtime.ensureRoomExists of a tracked room resolved:
\* the room exists in the host.
RoomCreated(req) == [req EXCEPT !.rooms = @ + 1]

\* 4. A callback of execute gets past its trigger inference and calls
\* ensureRoomExists.
ExecuteRoomTracked(r) ==
  /\ reqs[r].pc = "execute"
  /\ reqs[r].roomIds < MaxActions
  /\ reqs' = [reqs EXCEPT ![r] = RoomTracked(@)]
  /\ UNCHANGED <<store, analysisResults, decisionPath, exec, sel, stages>>

\* 4. ensureRoomExists of a callback of execute resolves; the callback goes
\* on to runtime.processActions, execute has not returned.
ExecuteRoomCreated(r) ==
  /\ reqs[r].pc = "execute"
  /\ reqs[r].rooms < reqs[r].roomIds
  /\ reqs' = [reqs EXCEPT ![r] = RoomCreated(@)]
  /\ UNCHANGED <<store, analysisResults, decisionPath, exec, sel, stages>>

\* 4. execute resolves with its results and createdRoomIds (a tracked room
\* whose ensureRoomExists threw is not in the host).
ExecuteReturns(r) ==
  /\ reqs[r].pc = "execute"
  /\ reqs' = [reqs EXCEPT ![r].pc = NextStage(@)]
  /\ UNCHANGED <<store, analysisResults, decisionPath, exec, sel, stages>>

\* 1-2. categorize (an inference call per capability, not caught) or
\* collect (runtime.composeState) throws.  select and execute catch their
\* own errors.
StageThrows(r, msg) ==
  /\ reqs[r].pc \in {"categorize", "collect"}
  /\ reqs' = [reqs EXCEPT ![r] = Failed(@, msg)]
  /\ UNCHANGED <<store, analysisResults, decisionPath, exec, sel, stages>>

\* 5-6. analysisGenerator.generate resolves; the analysis id is drawn and
\* recommendationGenerator.generate is called.
InsightReturns(r) ==
  /\ reqs[r].pc = "insight"
  /\ reqs' = [reqs EXCEPT ![r].pc = "recommend", ![r].recCalled = TRUE]
  /\ UNCHANGED <<store, analysisResults, decisionPath, exec, sel, stages>>

\* Mutant: the failure of the inference call is swallowed and the run goes
\* on to the recommendations.
InsightThrows_GoesOn(r, msg) ==
  /\ reqs[r].pc = "insight"
  /\ reqs' = [reqs EXCEPT ![r].pc = "recommend", ![r].recCalled = TRUE,
                          ![r].failedAt = "insight", ![r].error = msg]
  /\ UNCHANGED <<store, analysisResults, decisionPath, exec, sel, stages>>

\* 5. The single inference call of analysisGenerator.generate throws.
InsightThrows(r, msg) ==
  /\ reqs[r].pc = "insight"
  /\ reqs' = [reqs EXCEPT ![r] = Failed(@, msg)]
  /\ UNCHANGED <<store, analysisResults, decisionPath, exec, sel, stages>>

\* 6-8. recommendationGenerator.generate resolves (it catches its own
\* errors); the result object is built and saveAnalysis issues its first
\* insert.
RecommendReturns(r, recs) ==
  /\ reqs[r].pc = "recommend"
  /\ reqs' = [reqs EXCEPT ![r].pc = "insert1", ![r].recs = recs]
  /\ UNCHANGED <<store, analysisResults, decisionPath, exec, sel, stages>>

\* recommendations.filter(rec => rec != null && rec.confidence != null),
\* as the positions kept.
validRecs(recs) == { k \in 1..Len(recs) : recs[k] }

\* saveAnalysis 1: the Analysis row is inserted; the second insert is
\* issued when a valid recommendation exists, otherwise saveAnalysis
\* returns and the room cleanup is awaited.
Insert1Ok(r) ==
  /\ reqs[r].pc = "insert1"
  /\ analysisResults' = analysisResults \cup {[id |-> AnalysisId(r), agentId |-> Agent]}
  /\ reqs' = [reqs EXCEPT ![r].pc =
       IF validRecs(reqs[r].recs) # {} THEN "insert2" ELSE "cleanup"]
  /\ UNCHANGED <<store, decisionPath, exec, sel, stages>>

\* saveAnalysis 1: the insert throws.
Insert1Throws(r) ==
  /\ reqs[r].pc = "insert1"
  /\ reqs' = [reqs EXCEPT ![r] = Failed(@, StoreErrorMsg)]
  /\ UNCHANGED <<store, analysisResults, decisionPath, exec, sel, stages>>

\* The recommended_actions rows of run r.
RecRows(r, recs) ==
  [id \in {RecId(r, k) : k \in validRecs(recs)} |->
     [PendingRow("SWAP_TOKEN") EXCEPT !.analysisId = AnalysisId(r)]]

\* saveAnalysis 2: the Recommendation rows are inserted.
Insert2Ok(r) ==
  /\ reqs[r].pc = "insert2"
  /\ store' = RecRows(r, reqs[r].recs) @@ store
  /\ reqs' = [reqs EXCEPT ![r].pc = "cleanup"]
  /\ UNCHANGED <<analysisResults, decisionPath, exec, sel, stages>>

\* saveAnalysis 2: the insert throws; the two inserts share no transaction.
Insert2Throws(r) ==
  /\ reqs[r].pc = "insert2"
  /\ reqs' = [reqs EXCEPT ![r] = Failed(@, StoreErrorMsg)]
  /\ UNCHANGED <<store, analysisResults, decisionPath, exec, sel, stages>>

\* 9. A deleteRoom of cleanupAnalysisRooms settles: the room is gone from
\* the host, or (deleted = FALSE) the call threw, which is logged, or the
\* room never was in the host.
RoomCleaned(req, deleted) ==
  [req EXCEPT !.cleaned = IF @ < req.roomIds THEN @ + 1 ELSE @,
              !.rooms = IF deleted THEN @ - 1 ELSE @]

\* 9. A deleteRoom of the loop settles and the loop awaits the next one.
DeleteRoomSettles(r, deleted) ==
  /\ reqs[r].pc = "cleanup"
  /\ reqs[r].cleaned + 1 < reqs[r].roomIds
  /\ deleted => reqs[r].rooms > 0
  /\ reqs' = [reqs EXCEPT ![r] = RoomCleaned(@, deleted)]
  /\ UNCHANGED <<store, analysisResults, decisionPath, exec, sel, stages>>

\* 9. The last deleteRoom settles, or cleanupAnalysisRooms was given no
\* room id and returned at once: cleanupAnalysisRooms resolves and
\* runAnalysis returns the result.
CleanupSettles(r, deleted) ==
  /\ reqs[r].pc = "cleanup"
  /\ reqs[r].cleaned + 1 >= reqs[r].roomIds
  /\ deleted => (reqs[r].roomIds > 0 /\ reqs[r].rooms > 0)
  /\ reqs' = [reqs EXCEPT ![r] =
       [RoomCleaned(@, deleted) EXCEPT
          !.pc = "completed",
          !.settled = IF reqs[r].caller = "route" THEN "logged" ELSE "returned"]]
  /\ UNCHANGED <<store, analysisResults, decisionPath, exec, sel, stages>>

\* getAnalysisResult: null (<<>>) when no row has the id, otherwise the
\* Analysis with the Recommendations that reference it.
getAnalysisResult(rows, db, analysisId) ==
  IF \E row \in rows : row.id = analysisId
  THEN << [ id |-> analysisId,
            recommendedActions |-> {id \in DOMAIN db : db[id].analysisId = analysisId} ] >>
  ELSE <<>>

\* getAnalysesByAgentId: the Analyses of the agent (fewer than `limit`
\* exist, so none is cut off), as the set of their ids.
getAnalysesByAgentId(rows, agentId) ==
  { row.id : row \in {x \in rows : x.agentId = agentId} }

RunInit == DecisionIdle /\ PipelineIdle

RunNext ==
  \/ \E r \in Runs, workerService \in BOOLEAN : runAnalysisHandler(r, workerService)
  \/ \E r \in Runs, hasBalance \in BOOLEAN : WalletChecked(r, hasBalance)
  \/ \E r \in Runs : WalletThrows(r)
  \/ \E r \in Runs : RunDirect(r)
  \/ \E r \in Runs : StageReturns(r)
  \/ \E r \in Runs : ExecuteRoomTracked(r)
  \/ \E r \in Runs : ExecuteRoomCreated(r)
  \/ \E r \in Runs : ExecuteReturns(r)
  \/ \E r \in Runs, msg \in {LlmError} \cup HostErrors : StageThrows(r, msg)
  \/ \E r \in Runs : InsightReturns(r)
  \/ \E r \in Runs : InsightThrows(r, LlmError)
  \/ \E r \in Runs, recs \in RecLists : RecommendReturns(r, recs)
  \/ \E r \in Runs : Insert1Ok(r)
  \/ \E r \in Runs : Insert1Throws(r)
  \/ \E r \in Runs : Insert2Ok(r)
  \/ \E r \in Runs : Insert2Throws(r)
  \/ \E r \in Runs, deleted \in BOOLEAN : DeleteRoomSettles(r, deleted)
  \/ \E r \in Runs, deleted \in BOOLEAN : CleanupSettles(r, deleted)

\* The analysis run: POST /analysis requests and direct runAnalysis calls
\* against a store holding the seeded Analysis.
RunSpec == RunInit /\ [][RunNext]_vars

\* The same with every awaited call settling: a run that can step does.
FairRunSpec == RunSpec /\ WF_vars(RunNext)

\* ---------------------------------------------------- DataExecutor.execute

\* The DATA capabilities the selector may hand over.
DataActionNames == {"GET_WALLET_BALANCE", "GET_TOKEN_PRICE"}
DataActionLists == UNION { [1..n -> DataActionNames] : n \in 0..MaxActions }

\* What an inference call may resolve with in place of its object: null or
\* undefined; and in place of a string: one of these, or a value that has
\* properties but no trim method (a number, an object).
Nullish == {"null", "undefined"}
NonStrings == Nullish \cup {"number"}

\* The TypeError of reading property `name` of null or undefined.
CannotRead(value, name) ==
  "Cannot read properties of " \o value \o " (reading '" \o name \o "')"

\* The TypeError of triggerMessage.trim() when the inference call resolved
\* with something that is not a string.
TrimTypeError(value) ==
  IF value \in Nullish THEN CannotRead(value, "trim")
  ELSE "triggerMessage.trim is not a function"

\* What the analysis run touches outside DataExecutor.
outsideExec == <<store, analysisResults, reqs, sel, stages, decisionPath>>

\* One callback of dataActions.map, suspended at its first await (the
\* trigger inference).  threw: the message its catch caught; cached: what
\* the dispatch left in the stateCache under its messageId; result: the
\* value the callback returned.
FreshPipe == [pc |-> "trigger", trigger |-> "", threw |-> "", cached |-> <<>>,
              result |-> <<>>]

\* The result returned for the first cached ActionResult, or for none.
LookedUpResult(name, actionResult) ==
  IF actionResult # <<>>
  THEN [ actionType |-> name,
         success |-> actionResult[1].success,
         data |-> IF actionResult[1].data # "" THEN actionResult[1].data
                  ELSE IF actionResult[1].values # "" THEN actionResult[1].values
                  ELSE NullText,
         error |-> extractErrorMessage(actionResult[1], "Action failed") ]
  ELSE [ actionType |-> name, success |-> FALSE, data |-> NullText,
         error |-> NoResultMsg ]

\* Mutant: the catch reports the capability as successful.
CaughtResult_Succeeds(name, errorMessage) ==
  [ actionType |-> name, success |-> TRUE, data |-> NullText, error |-> errorMessage ]

\* The result returned by the catch of the callback.
CaughtResult(name, errorMessage) ==
  [ actionType |-> name, success |-> FALSE, data |-> NullText, error |-> errorMessage ]

\* The callback of capability i catches an error and returns.
PipeCaught(i, errorMessage) ==
  exec' = [exec EXCEPT !.pipes[i] =
             [@ EXCEPT !.pc = "done", !.threw = errorMessage,
                       !.trigger = IF @ = "" THEN "failed" ELSE @,
                       !.result = <<CaughtResult(exec.dataActions[i], errorMessage)>>]]

AtPipe(i, pc) ==
  /\ exec.pc = "running"
  /\ i \in 1..Len(exec.pipes)
  /\ exec.pipes[i].pc = pc

\* The body of execute past the empty-input test: the world id is looked
\* up and every callback starts and suspends at its trigger inference.
StartPipes(dataActions) ==
  [IdleExec EXCEPT !.pc = "running", !.dataActions = dataActions,
                   !.pipes = [i \in 1..Len(dataActions) |-> FreshPipe],
                   !.hostCalls.getWorldId = 1,
                   !.hostCalls.useModel = Len(dataActions)]

\* Mutant: no empty-input test.
Execute_NoShortCircuit(dataActions) ==
  /\ exec.pc = "idle"
  /\ exec' = StartPipes(dataActions)
  /\ UNCHANGED outsideExec

\* execute(dataActions): an empty input returns at once.
Execute(dataActions) ==
  /\ exec.pc = "idle"
  /\ exec' = IF Len(dataActions) = 0
             THEN [IdleExec EXCEPT !.pc = "returned"]
             ELSE StartPipes(dataActions)
  /\ UNCHANGED outsideExec

\* Mutant: the room id is not tracked.
ExecTriggerReturns_Untracked(i) ==
  /\ AtPipe(i, "trigger")
  /\ exec' = [exec EXCEPT !.pipes[i].pc = "room",
                          !.pipes[i].trigger = "string",
                          !.hostCalls.ensureRoomExists = @ + 1]
  /\ UNCHANGED outsideExec

\* The callback of capability i from its trigger string to its next await:
\* the room id is drawn and tracked, and ensureRoomExists is called.
TriggerReturned(i) ==
  [exec EXCEPT !.pipes[i].pc = "room",
               !.pipes[i].trigger = "string",
               !.createdRoomIds = Append(@, i),
               !.hostCalls.ensureRoomExists = @ + 1]

\* The trigger inference resolves with a string: the room id is drawn and
\* tracked, and ensureRoomExists is called and awaited.
ExecTriggerReturns(i) ==
  /\ AtPipe(i, "trigger")
  /\ exec' = TriggerReturned(i)
  /\ UNCHANGED outsideExec

\* The trigger inference resolves with something that has no trim method.
ExecTriggerMalformed(i, value) ==
  /\ AtPipe(i, "trigger")
  /\ PipeCaught(i, TrimTypeError(value))
  /\ UNCHANGED outsideExec

\* The trigger inference throws.
ExecTriggerThrows(i, msg) ==
  /\ AtPipe(i, "trigger")
  /\ PipeCaught(i, msg)
  /\ UNCHANGED outsideExec

\* The callback of capability i from the creation of its room to its next
\* await: the memory and the responses are built, processActions is called.
RoomEnsured(i) ==
  [exec EXCEPT !.pipes[i].pc = "dispatch",
               !.hostRooms = @ \cup {i},
               !.hostCalls.processActions = @ + 1]

\* ensureRoomExists resolves, the room exists in the host;
\* runtime.processActions is called and awaited.
ExecRoomOk(i) ==
  /\ AtPipe(i, "room")
  /\ exec' = RoomEnsured(i)
  /\ UNCHANGED outsideExec

\* ensureRoomExists throws.
ExecRoomThrows(i, msg) ==
  /\ AtPipe(i, "room")
  /\ PipeCaught(i, msg)
  /\ UNCHANGED outsideExec

\* runtime.processActions resolves, having left `cached` under the
\* callback's messageId; the result is looked up and returned.
ExecDispatchReturns(i, cached) ==
  /\ AtPipe(i, "dispatch")
  /\ exec' = [exec EXCEPT !.pipes[i] =
       [@ EXCEPT !.pc = "done", !.cached = cached,
                 !.result = <<LookedUpResult(exec.dataActions[i],
                                             getActionResultFromCache(<<cached>>, 1))>>],
                          !.hostCalls.stateCache = @ + 1]
  /\ UNCHANGED outsideExec

\* runtime.processActions throws.
ExecDispatchThrows(i, msg) ==
  /\ AtPipe(i, "dispatch")
  /\ PipeCaught(i, msg)
  /\ UNCHANGED outsideExec

\* Promise.all resolves once every callback has returned: the results in
\* input order, with the tracked room ids.
ExecuteReturn ==
  /\ exec.pc = "running"
  /\ \A i \in 1..Len(exec.pipes) : exec.pipes[i].pc = "done"
  /\ exec' = [exec EXCEPT !.pc = "returned",
                          !.results = [i \in 1..Len(exec.pipes) |-> exec.pipes[i].result[1]]]
  /\ UNCHANGED outsideExec

ExecNext ==
  \/ \E dataActions \in DataActionLists : Execute(dataActions)
  \/ \E i \in 1..MaxActions : ExecTriggerReturns(i)
  \/ \E i \in 1..MaxActions, value \in NonStrings : ExecTriggerMalformed(i, value)
  \/ \E i \in 1..MaxActions : ExecTriggerThrows(i, LlmError)
  \/ \E i \in 1..MaxActions : ExecRoomOk(i)
  \/ \E i \in 1..MaxActions, msg \in HostErrors : ExecRoomThrows(i, msg)
  \/ \E i \in 1..MaxActions, cached \in CachedResults : ExecDispatchReturns(i, cached)
  \/ \E i \in 1..MaxActions, msg \in HostErrors : ExecDispatchThrows(i, msg)
  \/ ExecuteReturn

\* One invocation of DataExecutor.execute, everything else at rest.
ExecSpec == RunInit /\ [][ExecNext]_vars

\* ------------------------------------------------------ DataSelector.select

\* The k-th entry of the dataActions map: a sub-type and its capabilities.
DataGroup(k) ==
  [ type |-> "type-" \o ToString(k),
    actions |-> <<"GET_" \o ToString(k) \o "_A", "GET_" \o ToString(k) \o "_B">> ]

\* The names a selection response may list for group k: the group's own
\* capabilities and a name no capability of the group has.
ResponseNames(k) ==
  {DataGroup(k).actions[1], DataGroup(k).actions[2], "UNKNOWN_ACTION"}

\* What a selection call may resolve with in place of its object: null,
\* undefined, or an object that has no relevantActions.
NonSelections == Nullish \cup {"object"}

\* The TypeError of response.relevantActions.includes when the response is
\* null or undefined, or has no relevantActions.
IncludesTypeError(value) ==
  IF value \in Nullish THEN CannotRead(value, "relevantActions")
  ELSE CannotRead("undefined", "includes")

\* What the analysis run touches outside DataSelector.
outsideSel == <<store, analysisResults, reqs, exec, stages, decisionPath>>

\* One callback of the map over the groups, suspended at its inference
\* call.  relevant: the names the response listed; threw: the message its
\* catch caught; selected: the value the callback returned.
FreshOut == [pc |-> "model", relevant |-> {}, threw |-> "", selected |-> <<>>]

\* actions.filter(action => response.relevantActions.includes(action.name))
RECURSIVE filterIncluded(_, _)
filterIncluded(actions, relevant) ==
  IF actions = <<>> THEN <<>>
  ELSE IF Head(actions) \in relevant
       THEN <<Head(actions)>> \o filterIncluded(Tail(actions), relevant)
       ELSE filterIncluded(Tail(actions), relevant)

\* selections.flat()
RECURSIVE flat(_)
flat(selections) ==
  IF selections = <<>> THEN <<>>
  ELSE Head(selections) \o flat(Tail(selections))

\* Mutant: a group whose call failed contributes all its capabilities.
CaughtSelection_KeepsAll(actions) == actions

\* The catch of a group's callback returns [].
CaughtSelection(actions) == <<>>

AtGroup(g) ==
  /\ sel.pc = "running"
  /\ g \in 1..Len(sel.outs)
  /\ sel.outs[g].pc = "model"

\* The callback of group g catches an error and returns.
GroupCaught(g, errorMessage) ==
  sel' = [sel EXCEPT !.outs[g] =
            [@ EXCEPT !.pc = "done", !.threw = errorMessage,
                      !.selected = CaughtSelection(sel.groups[g].actions)]]

\* The dataActions maps with n entries a select call is given here.
DataActionMaps == { [k \in 1..n |-> DataGroup(k)] : n \in 0..MaxGroups }

\* select(dataActions, providerData): Array.from(dataActions.entries()) in
\* the map's insertion order; the callback of every entry starts and
\* suspends at its inference call.
Select(dataActions) ==
  /\ sel.pc = "idle"
  /\ sel' = [IdleSel EXCEPT !.pc = "running",
                            !.groups = dataActions,
                            !.outs = [k \in 1..Len(dataActions) |-> FreshOut]]
  /\ UNCHANGED outsideSel

\* A variant that filters the capabilities of every group by the response
\* of group g.
SelModelReturns_AnyGroup(g, relevant) ==
  /\ AtGroup(g)
  /\ sel' = [sel EXCEPT !.outs[g] =
       [@ EXCEPT !.pc = "done", !.relevant = relevant,
                 !.selected = filterIncluded(flat([k \in 1..Len(sel.groups) |-> sel.groups[k].actions]),
                                             relevant)]]
  /\ UNCHANGED outsideSel

\* The inference call of group g resolves with relevantActions = relevant.
SelModelReturns(g, relevant) ==
  /\ AtGroup(g)
  /\ sel' = [sel EXCEPT !.outs[g] =
       [@ EXCEPT !.pc = "done", !.relevant = relevant,
                 !.selected = filterIncluded(sel.groups[g].actions, relevant)]]
  /\ UNCHANGED outsideSel

\* The inference call of group g resolves with null, undefined or an object
\* that has no relevantActions.
SelModelMalformed(g, value) ==
  /\ AtGroup(g)
  /\ GroupCaught(g, IncludesTypeError(value))
  /\ UNCHANGED outsideSel

\* The inference call of group g throws.
SelModelThrows(g, msg) ==
  /\ AtGroup(g)
  /\ GroupCaught(g, msg)
  /\ UNCHANGED outsideSel

\* Promise.all resolves once every callback has returned; the selections
\* are flattened in group order.
SelectReturn_FirstDone ==
  /\ sel.pc = "running"
  /\ \E g \in 1..Len(sel.outs) : sel.outs[g].pc = "done"
  /\ sel' = [sel EXCEPT !.pc = "returned",
                        !.relevantActions = flat([g \in 1..Len(sel.outs) |-> sel.outs[g].selected])]
  /\ UNCHANGED outsideSel

\* Promise.all over the group callbacks (none rejects) resolves when every
\* callback has returned; the lists are flattened and returned.
SelectReturn ==
  /\ sel.pc = "running"
  /\ \A g \in 1..Len(sel.outs) : sel.outs[g].pc = "done"
  /\ sel' = [sel EXCEPT !.pc = "returned",
                        !.relevantActions = flat([g \in 1..Len(sel.outs) |-> sel.outs[g].selected])]
  /\ UNCHANGED outsideSel

\* The names a response for group k may list when the model also names a
\* capability of the next group.
CrossNames(k) == ResponseNames(k) \cup {DataGroup((k % MaxGroups) + 1).actions[1]}

SelNext ==
  \/ \E dataActions \in DataActionMaps : Select(dataActions)
  \/ \E g \in 1..MaxGroups : \E relevant \in SUBSET CrossNames(g) : SelModelReturns(g, relevant)
  \/ \E g \in 1..MaxGroups, value \in NonSelections : SelModelMalformed(g, value)
  \/ \E g \in 1..MaxGroups : SelModelThrows(g, LlmError)
  \/ SelectReturn

\* One invocation of DataSelector.select, everything else at rest.
SelSpec == RunInit /\ [][SelNext]_vars

\* ---------------------------------------------- ActionCategorizer.categorize

\* runtime.actions: n capabilities.
Capability(i) == "CAP_" \o ToString(i)
CapabilityLists == { [i \in 1..n |-> Capability(i)] : n \in 0..MaxActions }

\* What the classification call may resolve with: the two categories of
\* actionCategorizationSchema and a value outside the enum, with a sub-type.
Categories == {"DATA", "ACTION"}
SubTypes == {"wallet_info", "swap"}
CatResponses == [category : Categories \cup {"BOTH"}, actionType : SubTypes]

\* The TypeError of response.category when the call resolved with null or
\* undefined.
CategoryTypeError(value) == CannotRead(value, "category")

\* What the analysis run touches outside ActionCategorizer.
outsideCat == <<store, analysisResults, reqs, exec, sel, gen, repo, clean, world, corr,
               decisionPath>>

\* One categorizeAction promise, suspended at its inference call.
FreshCatCall == [pc |-> "model", value |-> <<>>, threw |-> ""]

\* The ActionClassification categorizeAction returns.
Classification(action, response) ==
  [action |-> action, category |-> response.category, actionType |-> response.actionType]

\* map.get(key) || []
GetOrEmpty(map, key) == IF key \in DOMAIN map THEN map[key] ELSE <<>>

\* Mutant: the list of the sub-type is replaced by the new capability alone.
PushInto_Overwrites(map, key, action) == (key :> <<action>>) @@ map

\* typeActions = map.get(key) || []; typeActions.push(action);
\* map.set(key, typeActions)
PushInto(map, key, action) == (key :> Append(GetOrEmpty(map, key), action)) @@ map

\* The grouping loop over the classifications, from the i-th on.
RECURSIVE groupFrom(_, _, _)
groupFrom(classifications, i, maps) ==
  IF i > Len(classifications) THEN maps
  ELSE LET c == classifications[i]
       IN groupFrom(classifications, i + 1,
            IF c.category = "DATA"
            THEN [maps EXCEPT !.dataActions = PushInto(@, c.actionType, c.action)]
            ELSE IF c.category = "ACTION"
            THEN [maps EXCEPT !.actionActions = PushInto(@, c.actionType, c.action)]
            ELSE maps)

AtCatCall(i) ==
  /\ cat.pc \in {"running", "threw"}
  /\ i \in 1..Len(cat.calls)
  /\ cat.calls[i].pc = "model"

\* The promise of capability i rejects: Promise.all rejects with the first
\* rejection and categorize throws it.
CatCallRejects(i, errorMessage) ==
  cat' = [cat EXCEPT !.calls[i] = [@ EXCEPT !.pc = "threw", !.threw = errorMessage],
                     !.pc = "threw",
                     !.error = IF cat.pc = "running" THEN errorMessage ELSE @]

\* categorize(): one categorizeAction per capability of runtime.actions,
\* each suspended at its inference call.
Categorize(allActions) ==
  /\ cat.pc = "idle"
  /\ cat' = [IdleCat EXCEPT !.pc = "running", !.allActions = allActions,
                            !.calls = [i \in 1..Len(allActions) |-> FreshCatCall]]
  /\ UNCHANGED outsideCat

\* The inference call of capability i resolves with an object.
CatModelReturns(i, response) ==
  /\ AtCatCall(i)
  /\ cat' = [cat EXCEPT !.calls[i] =
       [@ EXCEPT !.pc = "returned",
                 !.value = <<Classification(cat.allActions[i], response)>>]]
  /\ UNCHANGED outsideCat

\* The inference call of capability i resolves with null or undefined.
CatModelMalformed(i, value) ==
  /\ AtCatCall(i)
  /\ CatCallRejects(i, CategoryTypeError(value))
  /\ UNCHANGED outsideCat

\* The inference call of capability i throws.
CatModelThrows(i, msg) ==
  /\ AtCatCall(i)
  /\ CatCallRejects(i, msg)
  /\ UNCHANGED outsideCat

\* Promise.all resolves with the classifications in input order; they are
\* grouped and returned.
CategorizeReturn ==
  /\ cat.pc = "running"
  /\ \A i \in 1..Len(cat.calls) : cat.calls[i].pc = "returned"
  /\ LET classifications == [i \in 1..Len(cat.calls) |-> cat.calls[i].value[1]]
         maps == groupFrom(classifications, 1,
                           [dataActions |-> <<>>, actionActions |-> <<>>])
     IN cat' = [cat EXCEPT !.pc = "returned",
                           !.classifications = classifications,
                           !.dataActions = maps.dataActions,
                           !.actionActions = maps.actionActions]
  /\ UNCHANGED outsideCat

CatNext ==
  \/ \E allActions \in CapabilityLists : Categorize(allActions)
  \/ \E i \in 1..MaxActions, response \in CatResponses : CatModelReturns(i, response)
  \/ \E i \in 1..MaxActions, value \in Nullish : CatModelMalformed(i, value)
  \/ \E i \in 1..MaxActions : CatModelThrows(i, LlmError)
  \/ CategorizeReturn

\* One invocation of ActionCategorizer.categorize, everything else at rest.
CatSpec == RunInit /\ [][CatNext]_vars

\* -------------------------------------------------------- AnalysisRepository

\* PRIORITY_VALUES and PRIORITY_NAMES.
PRIORITY_VALUES == [high |-> 3, medium |-> 2, low |-> 1]
PRIORITY_NAMES == (3 :> "high") @@ (2 :> "medium") @@ (1 :> "low")

\* A confidence is a number of thousandths; NoConfidence is a confidence
\* that is null or undefined.
NoConfidence == -1
Confidences == {NoConfidence, 500, 755}

\* rec.confidence.toString() stored in a decimal(3, 2) column: the value is
\* rounded to hundredths.  parseFloat of the column gives it back.
ToDecimal(confidence) == (confidence + 5) \div 10
ParseFloat(decimal) == decimal * 10

\* new Date(iso) and date.toISOString().
NewDate(iso) == iso.ms
ToISOString(date) == [ms |-> date]

\* limit: number = 10
DefaultLimit == 10

Agents == {Agent, "agent-2"}

\* What the generator may have put into the recommendations of one save:
\* every priority with the same confidence, the highest priority without
\* a confidence and the lowest priority with a higher confidence.
RecShapes ==
  [priority : DOMAIN PRIORITY_VALUES, confidence : {500}]
    \cup [priority : {"high"}, confidence : {NoConfidence}]
    \cup [priority : {"low"}, confidence : {755}]
\* The lists of one save, up to the order of their elements (the rows are
\* inserted into a table, and the ids follow the positions): the shapes of
\* higher priority, then of higher confidence, first.
ShapeRank(shape) == PRIORITY_VALUES[shape.priority] * 1000 + shape.confidence
RecShapeLists ==
  { shapes \in UNION { [1..len -> RecShapes] : len \in 0..MaxRecs } :
      \A i, j \in 1..Len(shapes) : i < j => ShapeRank(shapes[i]) >= ShapeRank(shapes[j]) }

\* The RecommendedAction list given to the n-th save: the ids are unique.
RecommendedActionsOf(n, shapes, time) ==
  [k \in 1..Len(shapes) |->
     [ id |-> RecId(n, k),
       analysisId |-> AnalysisId(n),
       priority |-> shapes[k].priority,
       confidence |-> shapes[k].confidence,
       status |-> "pending",
       createdAt |-> ToISOString(time) ]]

\* The AnalysisResult of the n-th save.
AnalysisOf(n, agentId, time) ==
  [ id |-> AnalysisId(n), agentId |-> agentId, timestamp |-> ToISOString(time),
    createdAt |-> ToISOString(time) ]

\* What the analysis run touches outside AnalysisRepository.  The clock is
\* the one the callers stamp createdAt with.
outsideRepo == <<store, analysisResults, reqs, exec, sel, gen, cat, clean, world, corr,
                 faults, calls, tasks, nTasks, stateCache>>

\* The analysis_results row saveAnalysis inserts.
AnalysisRow(analysis) ==
  [ id |-> analysis.id, agentId |-> analysis.agentId,
    createdAt |-> NewDate(analysis.createdAt) ]

\* recommendations.filter(rec => rec != null && rec.confidence != null)
RECURSIVE validRecsOf(_)
validRecsOf(recommendations) ==
  IF recommendations = <<>> THEN <<>>
  ELSE IF Head(recommendations).confidence # NoConfidence
       THEN <<Head(recommendations)>> \o validRecsOf(Tail(recommendations))
       ELSE validRecsOf(Tail(recommendations))

\* The recommended_actions row saveAnalysis inserts for a recommendation.
ActionRow(analysis, rec) ==
  [ id |-> rec.id, analysisId |-> analysis.id,
    priority |-> PRIORITY_VALUES[rec.priority],
    confidence |-> ToDecimal(rec.confidence),
    status |-> rec.status, createdAt |-> NewDate(rec.createdAt) ]

\* The RecommendedAction a read builds from a row.
ActionOfRow(row) ==
  [ id |-> row.id, analysisId |-> row.analysisId,
    priority |-> IF row.priority \in DOMAIN PRIORITY_NAMES
                 THEN PRIORITY_NAMES[row.priority] ELSE "medium",
    confidence |-> ParseFloat(row.confidence),
    status |-> row.status, createdAt |-> ToISOString(row.createdAt) ]

\* The AnalysisResult a read builds from a row.
AnalysisOfRow(row) ==
  [ id |-> row.id, agentId |-> row.agentId, timestamp |-> ToISOString(row.createdAt),
    createdAt |-> ToISOString(row.createdAt) ]

\* The sequences that list every element of a finite set once.
Orderings(S) ==
  { f \in [1..Cardinality(S) -> S] : \A x \in S : \E i \in 1..Cardinality(S) : f[i] = x }

\* The orders in which a query may return `rows` under ORDER BY: Before(a, b)
\* says row a must come before row b.
OrderedBy(rows, Before(_, _)) ==
  { f \in Orderings(rows) :
      \A i, j \in 1..Cardinality(rows) : Before(f[j], f[i]) => j < i }

\* The first `limit` elements of a sequence (LIMIT).
Limit(seq, limit) == [i \in 1..(IF limit < Len(seq) THEN limit ELSE Len(seq)) |-> seq[i]]

\* seq.map(Op)
Map(seq, Op(_)) == [i \in 1..Len(seq) |-> Op(seq[i])]

\* Mutant: ORDER BY desc(priority) alone.
ActionsBefore_PriorityOnly(a, b) == a.priority > b.priority

\* ORDER BY desc(priority), desc(confidence)
ActionsBefore(a, b) ==
  \/ a.priority > b.priority
  \/ a.priority = b.priority /\ a.confidence > b.confidence

\* Mutant: ORDER BY created_at ascending.
AnalysesBefore_Oldest(a, b) == a.createdAt < b.createdAt

\* ORDER BY desc(created_at)
AnalysesBefore(a, b) == a.createdAt > b.createdAt

\* getAnalysisResult, first query: the rows of analysis_results with the id
\* (the id is the primary key: none or one).
SelectAnalysis(analysisId) ==
  { row \in repo.analysisResults : row.id = analysisId }

\* getAnalysisResult, second query and return value: the Analysis of the row
\* the first query found, with the recommendations that reference it now.
\* The query of the recommendations has no ORDER BY: they are given as a set.
Repository_getAnalysisResult(row) ==
  LET actions == { a \in repo.recommendedActions : a.analysisId = row.id }
  IN << AnalysisOfRow(row)
          @@ [recommendedActions |-> { ActionOfRow(a) : a \in actions }] >>

\* getActionsByAnalysisId(analysisId): the lists the query may return.
Repository_getActionsByAnalysisId(analysisId) ==
  { Map(results, ActionOfRow) :
      results \in OrderedBy({ row \in repo.recommendedActions : row.analysisId = analysisId },
                            ActionsBefore) }

\* getAnalysesByAgentId(agentId, limit): the lists the query may return.
Repository_getAnalysesByAgentId(agentId, limit) ==
  { Map(Limit(results, limit), AnalysisOfRow) :
      results \in OrderedBy({ row \in repo.analysisResults : row.agentId = agentId },
                            AnalysesBefore) }

\* saveAnalysis(analysis, recommendations): the first insert is issued.
SaveAnalysis(agentId, shapes) ==
  /\ repo.pc = "idle"
  /\ repo.nSaves < MaxSaves
  /\ repo' = [repo EXCEPT !.pc = "insert1", !.nSaves = @ + 1, !.read = <<>>,
                          !.saving = <<[analysis |-> AnalysisOf(repo.nSaves + 1, agentId, now),
                                        recommendations |->
                                          RecommendedActionsOf(repo.nSaves + 1, shapes, now)]>>]
  /\ UNCHANGED <<now, outsideRepo>>

\* A variant that inserts the recommendations before the Analysis.
RepoInsert1Ok_ActionsFirst ==
  /\ repo.pc = "insert1"
  /\ LET valid == validRecsOf(repo.saving[1].recommendations)
     IN repo' = [repo EXCEPT
          !.pc = "insert2", !.read = <<>>,
          !.recommendedActions =
             @ \cup { ActionRow(repo.saving[1].analysis, valid[k]) : k \in 1..Len(valid) }]
  /\ UNCHANGED <<now, outsideRepo>>

\* The insert into analysis_results returns; with recommendations that have
\* a confidence the second insert is issued, otherwise the call returns.
RepoInsert1Ok ==
  /\ repo.pc = "insert1"
  /\ LET after == [repo EXCEPT !.analysisResults = @ \cup {AnalysisRow(repo.saving[1].analysis)},
                               !.read = <<>>]
     IN repo' = IF Len(validRecsOf(repo.saving[1].recommendations)) > 0
                THEN [after EXCEPT !.pc = "insert2"]
                ELSE [after EXCEPT !.pc = "idle", !.saving = <<>>,
                                   !.saved = Append(@, repo.saving[1])]
  /\ UNCHANGED <<now, outsideRepo>>

\* An insert throws: saveAnalysis throws, with whatever it inserted so far.
RepoInsertThrows ==
  /\ repo.pc \in {"insert1", "insert2"}
  /\ repo' = [repo EXCEPT !.pc = "idle", !.saving = <<>>]
  /\ UNCHANGED <<now, outsideRepo>>

\* The insert into recommended_actions returns; the call returns.
RepoInsert2Ok ==
  /\ repo.pc = "insert2"
  /\ LET valid == validRecsOf(repo.saving[1].recommendations)
     IN repo' = [repo EXCEPT
          !.pc = "idle", !.saving = <<>>, !.read = <<>>,
          !.saved = Append(@, repo.saving[1]),
          !.recommendedActions =
             @ \cup { ActionRow(repo.saving[1].analysis, valid[k]) : k \in 1..Len(valid) }]
  /\ UNCHANGED <<now, outsideRepo>>

\* A read returns `value`, whether a saveAnalysis is in progress or not.
\* There is one reader, which awaits each call before it makes the next.
RepoReads(op, arg, value) ==
  /\ (op # "getAnalysisResult" => repo.reading = <<>>)
  /\ repo' = [repo EXCEPT !.read = <<[op |-> op, arg |-> arg, value |-> value]>>,
                          !.reading = IF op = "getAnalysisResult" THEN <<>> ELSE @]
  /\ UNCHANGED <<now, outsideRepo>>

\* getAnalysisResult(analysisId): the first query resolves.  Without a row
\* the call returns null; with one, the second query is issued and awaited.
GetAnalysisResult(analysisId) ==
  /\ repo.reading = <<>>
  /\ IF SelectAnalysis(analysisId) = {}
     THEN RepoReads("getAnalysisResult", <<analysisId>>, <<>>)
     ELSE /\ repo' = [repo EXCEPT !.read = <<>>,
                                  !.reading =
                        <<CHOOSE row \in SelectAnalysis(analysisId) : TRUE>>]
          /\ UNCHANGED <<now, outsideRepo>>

\* getAnalysisResult: the second query resolves and the call returns.
GetAnalysisResultReturns ==
  /\ repo.reading # <<>>
  /\ RepoReads("getAnalysisResult", <<repo.reading[1].id>>,
               Repository_getAnalysisResult(repo.reading[1]))

GetActionsByAnalysisId(analysisId) ==
  \E value \in Repository_getActionsByAnalysisId(analysisId) :
    RepoReads("getActionsByAnalysisId", <<analysisId>>, value)

GetAnalysesByAgentId(agentId, limit) ==
  \E value \in Repository_getAnalysesByAgentId(agentId, limit) :
    RepoReads("getAnalysesByAgentId", <<agentId, limit>>, value)

\* The ids a caller may ask for: those of the saves, made or not.
AnalysisIds == { AnalysisId(n) : n \in 1..MaxSaves }

RepoNext ==
  \/ \E agentId \in Agents, shapes \in RecShapeLists : SaveAnalysis(agentId, shapes)
  \/ RepoInsert1Ok
  \/ RepoInsertThrows
  \/ RepoInsert2Ok
  \/ \E analysisId \in AnalysisIds : GetAnalysisResult(analysisId)
  \/ GetAnalysisResultReturns
  \/ \E analysisId \in AnalysisIds : GetActionsByAnalysisId(analysisId)
  \/ \E agentId \in Agents, limit \in (1..MaxSaves - 1) \cup {DefaultLimit} :
       GetAnalysesByAgentId(agentId, limit)
  \/ Tick

\* The repository under saves and reads, everything else at rest but the
\* clock.
RepoSpec == RunInit /\ [][RepoNext]_vars

\* ------------------------------------------ RecommendationGenerator.generate

\* The k-th entry of the actionActions map: a sub-type and its capabilities.
ActionGroup(k) ==
  [ type |-> "action-type-" \o ToString(k),
    actions |-> <<"DO_" \o ToString(k) \o "_A", "DO_" \o ToString(k) \o "_B">> ]

\* The names a selection response may list for group k, and a
\* recommendation may carry as its actionType.
SelectionNames(k) ==
  {ActionGroup(k).actions[1], ActionGroup(k).actions[2], "UNKNOWN_ACTION"}

\* Math.random().toString(36).substring(2, 11): the values two draws may
\* share or not.
Randoms == 1..MaxRand

\* What runtime.useModel may throw: an Error whose JSON.stringify returns, and
\* an object JSON.stringify cannot serialise (a circular structure).
GenErrors == { [message |-> LlmError, circular |-> FALSE],
               [message |-> LlmError, circular |-> TRUE] }

\* The TypeError of recommendation.params when the call resolved with
\* null or undefined.
ParamsTypeError(value) == CannotRead(value, "params")

\* What the analysis run touches outside RecommendationGenerator.  The
\* clock is read by Date.now() and new Date().
outsideGen == <<store, analysisResults, reqs, exec, sel, cat, repo, clean, world, corr,
                faults, calls, tasks, nTasks, stateCache>>

\* One callback of selectedActions.map, suspended at its inference call.
\* pc: "model", then "returned" (a Recommendation), "null" (the catch
\* returned null) or "rejected" (the catch itself threw); value: what the
\* callback returned, <<>> for null.
FreshItem(name) == [pc |-> "model", name |-> name, value |-> <<>>]

\* One callback of the map over the groups, suspended at its selection
\* call.  pc: "select", "recommend" (awaiting the inner Promise.all), "done";
\* selection: how the selection call ended; threw: what the outer catch
\* caught; value: the list the callback returned.
FreshGroupOut ==
  [pc |-> "select", selection |-> "", items |-> <<>>, threw |-> "", value |-> <<>>]

\* The RecommendedAction built from the model's recommendation, whose
\* actionType is copied.
BuildRecommendedAction(analysisId, actionType, confident, time, random) ==
  [ id |-> [time |-> time, random |-> random],
    analysisId |-> analysisId,
    actionType |-> actionType,
    confident |-> confident,
    status |-> "pending",
    createdAt |-> time ]

\* recommendations.filter(r => r !== null)
RECURSIVE filterNotNull(_)
filterNotNull(values) ==
  IF values = <<>> THEN <<>>
  ELSE IF Head(values) # <<>>
       THEN Head(values) \o filterNotNull(Tail(values))
       ELSE filterNotNull(Tail(values))

AtSelection(g) ==
  /\ gen.pc = "running"
  /\ g \in 1..Len(gen.outs)
  /\ gen.outs[g].pc = "select"

AtItem(g, k) ==
  /\ gen.pc \in {"running", "returned"}
  /\ g \in 1..Len(gen.outs)
  /\ k \in 1..Len(gen.outs[g].items)
  /\ gen.outs[g].items[k].pc = "model"

\* The outer catch of group g: the callback returns [].
GenGroupCaught(g, selection, errorMessage) ==
  gen' = [gen EXCEPT !.outs[g] =
            [@ EXCEPT !.pc = "done",
                      !.selection = IF @ = "" THEN selection ELSE @,
                      !.threw = errorMessage, !.value = <<>>]]

\* The actionActions maps with n entries a generate call is given here.
ActionActionMaps == { [k \in 1..n |-> ActionGroup(k)] : n \in 0..MaxGroups }

\* generate(analysisId, analysis, actionActions):
\* Array.from(actionActions.entries()) in the map's insertion order; the
\* callback of every entry starts and suspends at its selection call.
Generate(analysisId, actionActions) ==
  /\ gen.pc = "idle"
  /\ gen' = [IdleGen EXCEPT !.pc = "running", !.analysisId = analysisId,
                            !.groups = actionActions,
                            !.outs = [k \in 1..Len(actionActions) |-> FreshGroupOut]]
  /\ UNCHANGED <<now, outsideGen>>

\* The selection call of group g resolves: nothing selected returns [],
\* otherwise one callback per selected capability starts.
GenSelectReturns(g, relevant) ==
  /\ AtSelection(g)
  /\ LET selectedActions == filterIncluded(gen.groups[g].actions, relevant)
     IN gen' = [gen EXCEPT !.outs[g] =
                  IF Len(selectedActions) = 0
                  THEN [@ EXCEPT !.pc = "done", !.selection = "returned"]
                  ELSE [@ EXCEPT !.pc = "recommend", !.selection = "returned",
                                 !.items = [k \in 1..Len(selectedActions) |->
                                              FreshItem(selectedActions[k])]]]
  /\ UNCHANGED <<now, outsideGen>>

\* The selection call resolves with null, undefined or an object without
\* relevantActions.
GenSelectMalformed(g, value) ==
  /\ AtSelection(g)
  /\ GenGroupCaught(g, "failed", IncludesTypeError(value))
  /\ UNCHANGED <<now, outsideGen>>

\* The selection call throws.
GenSelectThrows(g, error) ==
  /\ AtSelection(g)
  /\ GenGroupCaught(g, "failed", error.message)
  /\ UNCHANGED <<now, outsideGen>>

\* The recommendation call of item k of group g resolves with a
\* recommendation naming actionType: the callback returns the
\* RecommendedAction.
GenRecReturns(g, k, actionType, confident, random) ==
  /\ AtItem(g, k)
  /\ gen' = [gen EXCEPT !.outs[g].items[k] =
       [@ EXCEPT !.pc = "returned",
                 !.value = <<BuildRecommendedAction(gen.analysisId, actionType,
                                                    confident, now, random)>>]]
  /\ UNCHANGED <<now, outsideGen>>

\* The inner catch of item k: it logs JSON.stringify(error) and returns
\* null.  A circular error makes JSON.stringify throw inside the catch: the
\* callback rejects, the inner Promise.all rejects at once and the outer
\* catch of the group returns [].
GenItemCaught(g, k, error) ==
  IF error.circular
  THEN gen' = [gen EXCEPT !.outs[g] =
                 IF @.pc = "recommend"
                 THEN [@ EXCEPT !.pc = "done", !.threw = "Converting circular structure to JSON",
                                !.value = <<>>, !.items[k].pc = "rejected"]
                 ELSE [@ EXCEPT !.items[k].pc = "rejected"]]
  ELSE gen' = [gen EXCEPT !.outs[g].items[k].pc = "null"]

\* The recommendation call resolves with null or undefined.
GenRecMalformed(g, k, value) ==
  /\ AtItem(g, k)
  /\ GenItemCaught(g, k, [message |-> ParamsTypeError(value), circular |-> FALSE])
  /\ UNCHANGED <<now, outsideGen>>

\* The recommendation call throws.
GenRecThrows(g, k, error) ==
  /\ AtItem(g, k)
  /\ GenItemCaught(g, k, error)
  /\ UNCHANGED <<now, outsideGen>>

\* The inner Promise.all of group g resolves: the nulls are filtered out.
GenGroupJoin(g) ==
  /\ gen.pc = "running"
  /\ g \in 1..Len(gen.outs)
  /\ gen.outs[g].pc = "recommend"
  /\ \A k \in 1..Len(gen.outs[g].items) : gen.outs[g].items[k].pc \in {"returned", "null"}
  /\ gen' = [gen EXCEPT !.outs[g] =
       [@ EXCEPT !.pc = "done",
                 !.value = filterNotNull([k \in 1..Len(gen.outs[g].items) |->
                                            gen.outs[g].items[k].value])]]
  /\ UNCHANGED <<now, outsideGen>>

\* The outer Promise.all resolves; allRecommendations.flat() is returned.
GenerateReturn ==
  /\ gen.pc = "running"
  /\ \A g \in 1..Len(gen.outs) : gen.outs[g].pc = "done"
  /\ gen' = [gen EXCEPT !.pc = "returned",
                        !.result = flat([g \in 1..Len(gen.outs) |-> gen.outs[g].value])]
  /\ UNCHANGED <<now, outsideGen>>

\* The resolutions of a recommendation call told apart here: every
\* confidence and random suffix with the capability's own name, and one of
\* each with another name.
GenRecResolves(g, k, actionType, confident, random) ==
  /\ AtItem(g, k)
  /\ actionType = gen.outs[g].items[k].name \/ (confident /\ random = 1)
  /\ GenRecReturns(g, k, actionType, confident, random)

GenNext ==
  \/ \E r \in Runs, actionActions \in ActionActionMaps : Generate(AnalysisId(r), actionActions)
  \/ \E g \in 1..MaxGroups : \E relevant \in SUBSET SelectionNames(g) : GenSelectReturns(g, relevant)
  \/ \E g \in 1..MaxGroups, value \in NonSelections : GenSelectMalformed(g, value)
  \/ \E g \in 1..MaxGroups, error \in GenErrors : GenSelectThrows(g, error)
  \/ \E g \in 1..MaxGroups : \E k \in 1..Len(ActionGroup(g).actions) :
       \E actionType \in SelectionNames(g), confident \in BOOLEAN, random \in Randoms :
         GenRecResolves(g, k, actionType, confident, random)
  \/ \E g \in 1..MaxGroups : \E k \in 1..Len(ActionGroup(g).actions) :
       \E value \in Nullish : GenRecMalformed(g, k, value)
  \/ \E g \in 1..MaxGroups : \E k \in 1..Len(ActionGroup(g).actions) :
       \E error \in GenErrors : GenRecThrows(g, k, error)
  \/ \E g \in 1..MaxGroups : GenGroupJoin(g)
  \/ GenerateReturn
  \/ Tick

\* One invocation of RecommendationGenerator.generate, everything else at
\* rest but the clock.
GenSpec == RunInit /\ [][GenNext]_vars

\* ---------------------------------------- WorldManager.cleanupAnalysisRooms
\* The temporary rooms of the host.  DataExecutor names each with a fresh
\* UUID, so a list of them holds no id twice.
RoomIds == 1..MaxRooms
RoomIdLists ==
  {ids \in UNION {[1..n -> RoomIds] : n \in 0..MaxRooms} :
     \A i, j \in DOMAIN ids : i # j => ids[i] # ids[j]}

\* What runtime.deleteRoom may reject with: an Error, or a value that is
\* not an Error and that String() converts.
DeleteErrors == {[isError |-> TRUE,  message |-> StoreErrorMsg, text |-> "Error: " \o StoreErrorMsg],
                 [isError |-> FALSE, message |-> NullText,      text |-> "room is locked"]}

\* error instanceof Error ? error.message : String(error)
DeleteErrorMsg(error) == IF error.isError THEN error.message ELSE error.text

\* What a cleanup leaves alone.
outsideClean == <<store, now, faults, calls, tasks, nTasks, stateCache,
                  analysisResults, reqs, exec, sel, gen, cat, repo, world, corr>>

\* cleanupAnalysisRooms(roomIds): an empty list returns at once; otherwise
\* the loop is entered and runtime.deleteRoom is called for the first id.
Cleanup(roomIds) ==
  /\ clean.pc = "idle"
  /\ clean' = IF Len(roomIds) = 0
              THEN [clean EXCEPT !.pc = "returned", !.roomIds = roomIds]
              ELSE [clean EXCEPT !.pc = "deleting", !.roomIds = roomIds, !.at = 1,
                                 !.deleteCalls = <<roomIds[1]>>]
  /\ UNCHANGED outsideClean

\* The for-of loop after the body of the iteration at clean.at: the call
\* for the next id is issued, or the loop is over and the function returns.
CleanAdvance(state) ==
  IF state.at < Len(state.roomIds)
  THEN [state EXCEPT !.at = @ + 1,
                     !.deleteCalls = Append(@, state.roomIds[state.at + 1])]
  ELSE [state EXCEPT !.pc = "returned"]

\* runtime.deleteRoom(roomId) resolved.
CleanDeleteOk ==
  /\ clean.pc = "deleting"
  /\ clean' = CleanAdvance(clean)
  /\ UNCHANGED outsideClean

\* A variant whose try encloses the loop: the first failure ends it.
CleanDeleteCaught_Aborts(state, error) ==
  [state EXCEPT !.pc = "returned",
                !.warned = Append(@, [roomId |-> state.roomIds[state.at],
                                      errorMsg |-> DeleteErrorMsg(error)])]

\* The inner catch: the failure is logged as a warning and the loop goes on.
CleanDeleteCaught(state, error) ==
  CleanAdvance([state EXCEPT
    !.warned = Append(@, [roomId |-> state.roomIds[state.at],
                          errorMsg |-> DeleteErrorMsg(error)])])

\* runtime.deleteRoom(roomId) rejected.
CleanDeleteThrows(error) ==
  /\ clean.pc = "deleting"
  /\ clean' = CleanDeleteCaught(clean, error)
  /\ UNCHANGED outsideClean

CleanNext ==
  \/ \E roomIds \in RoomIdLists : Cleanup(roomIds)
  \/ CleanDeleteOk
  \/ \E error \in DeleteErrors : CleanDeleteThrows(error)

\* One invocation of WorldManager.cleanupAnalysisRooms, everything else at
\* rest.
CleanSpec == RunInit /\ [][CleanNext]_vars

\* -------------------------------------- WorldManager.ensureAgentWorldExists
\* The runtime a service is started with: the agent it runs, in one of the
\* processes of the host (a restart is a start in another process).
Runtimes == [agentId : Agents, process : 1..MaxProcesses]

\* createUniqueUuid(runtime, base): the UUID the host derives from the
\* string base and the runtime's agentId, a function of the two.
createUniqueUuid(runtime, base) == <<base, runtime.agentId>>

\* A variant whose world id differs from one process to the next.
getAgentWorldId_PerProcess(runtime) ==
  createUniqueUuid(runtime, "sendo-agent-" \o ToString(runtime.process))

\* getAgentWorldId(): createUniqueUuid(runtime, `sendo-agent-${agentId}`)
getAgentWorldId(runtime) ==
  createUniqueUuid(runtime, "sendo-agent-" \o runtime.agentId)

\* The error of the host's insert when the world's id is taken.
DuplicateKeyMsg == "duplicate key value violates unique constraint"

\* What a service start leaves alone.
outsideWorld == <<store, now, faults, calls, tasks, nTasks, stateCache,
                  analysisResults, reqs, exec, sel, gen, cat, repo, clean, corr>>

\* runtime.getWorld(worldId): the world stored under the id, or null (<<>>).
getWorld(worldId) ==
  IF worldId \in DOMAIN world.worlds THEN <<world.worlds[worldId]>> ELSE <<>>

\* The worlds the host holds for an agent, by id.
WorldsOf(agentId) ==
  {id \in DOMAIN world.worlds : world.worlds[id].agentId = agentId}

\* ensureAgentWorldExists() of the service started with runtime: the world
\* id is computed and runtime.getWorld(worldId) is awaited.
EnsureAgentWorldExists(c, runtime) ==
  /\ world.calls[c].pc = "idle"
  /\ world' = [world EXCEPT !.calls[c] =
       [pc |-> "getWorld", agentId |-> runtime.agentId,
        worldId |-> getAgentWorldId(runtime),
        existed |-> WorldsOf(runtime.agentId) # {}, looked |-> FALSE,
        createCalls |-> 0, createdAt |-> NoTime, error |-> ""]]
  /\ UNCHANGED outsideWorld

\* if (existingWorld) return; otherwise runtime.ensureWorldExists is called
\* with metadata.createdAt: Date.now().
EnsureChecked(state, existingWorld, at) ==
  IF existingWorld # <<>>
  THEN [state EXCEPT !.pc = "returned", !.looked = TRUE]
  ELSE [state EXCEPT !.pc = "ensureWorldExists", !.looked = TRUE,
                     !.createCalls = @ + 1, !.createdAt = at]

\* runtime.getWorld resolved.
EnsureGetWorldReturns(c) ==
  /\ world.calls[c].pc = "getWorld"
  /\ world' = [world EXCEPT !.calls[c] =
                 EnsureChecked(world.calls[c], getWorld(world.calls[c].worldId), now)]
  /\ UNCHANGED outsideWorld

\* runtime.ensureWorldExists resolved: the host holds a world under that id,
\* inserted with the agentId and the metadata of the call unless one was
\* there (the id is the table's primary key).
EnsureCreateReturns(c) ==
  /\ world.calls[c].pc = "ensureWorldExists"
  /\ world' = [world EXCEPT
       !.worlds = IF getWorld(world.calls[c].worldId) # <<>> THEN @
                  ELSE (world.calls[c].worldId :>
                          [agentId |-> world.calls[c].agentId,
                           createdAt |-> world.calls[c].createdAt]) @@ @,
       !.calls[c].pc = "returned"]
  /\ UNCHANGED outsideWorld

\* What the host's world calls may reject with: a failed query, or the
\* insert's duplicate key error.
WorldErrors == {StoreErrorMsg, DuplicateKeyMsg}

\* The catch of ensureAgentWorldExists logs and rethrows.
EnsureCaught(state, msg) == [state EXCEPT !.pc = "threw", !.error = msg]

\* runtime.getWorld rejected: no creation is asked for.
EnsureGetWorldThrows(c, msg) ==
  /\ world.calls[c].pc = "getWorld"
  /\ world' = [world EXCEPT !.calls[c] = EnsureCaught(@, msg)]
  /\ UNCHANGED outsideWorld

\* runtime.ensureWorldExists rejected (the id was taken meanwhile, or the
\* query failed): no world is created by this call.
EnsureCreateThrows(c, msg) ==
  /\ world.calls[c].pc = "ensureWorldExists"
  /\ world' = [world EXCEPT !.calls[c] = EnsureCaught(@, msg)]
  /\ UNCHANGED outsideWorld

WorldNext ==
  \/ \E c \in 1..MaxEnsure, runtime \in Runtimes : EnsureAgentWorldExists(c, runtime)
  \/ \E c \in 1..MaxEnsure : EnsureGetWorldReturns(c)
  \/ \E c \in 1..MaxEnsure : EnsureCreateReturns(c)
  \/ \E c \in 1..MaxEnsure : EnsureGetWorldThrows(c, StoreErrorMsg)
  \/ \E c \in 1..MaxEnsure, msg \in WorldErrors : EnsureCreateThrows(c, msg)
  \/ Tick

\* The service starts of the agents (restarts and overlapping starts alike),
\* everything else at rest but the clock.
WorldSpec == RunInit /\ [][WorldNext]_vars

\* ----------------------------------------------- runAnalysis, stage by stage
\* The run of runAnalysis with the stages' own calls: each stage is called
\* when the run reaches it, and the run goes on when the stage's promise has
\* settled.

\* runtime.actions of the run's host: up to MaxFlowActions capabilities.
FlowCapabilityLists == { [i \in 1..n |-> Capability(i)] : n \in 0..MaxFlowActions }

\* The names a selection call of the run may list: the capabilities of the
\* host.
FlowNames == {Capability(i) : i \in 1..MaxFlowActions}

\* The keys of a capability map in insertion order: the grouping loop sets
\* a sub-type of the category where a classification first carries it.
RECURSIVE keysFrom(_, _, _, _)
keysFrom(classifications, i, category, keys) ==
  IF i > Len(classifications) THEN keys
  ELSE LET c == classifications[i]
       IN keysFrom(classifications, i + 1, category,
            IF c.category = category /\ c.actionType \notin Range(keys)
            THEN Append(keys, c.actionType) ELSE keys)

\* Array.from(map.entries()): the [type, actions] pairs in insertion order.
entries(map, keys) ==
  [k \in 1..Len(keys) |-> [type |-> keys[k], actions |-> map[keys[k]]]]

\* 1. this.actionCategorizer.categorize() is called.
FlowCategorize(r, allActions) ==
  /\ reqs[r].pc = "categorize"
  /\ Categorize(allActions)

\* 1-3. the awaited categorize, collect or select resolved.
FlowStageReturns(r) ==
  /\ reqs[r].pc = "categorize" => cat.pc = "returned"
  /\ reqs[r].pc = "select" => sel.pc = "returned"
  /\ StageReturns(r)

\* 1-2. the awaited categorize or collect rejected.
FlowStageThrows(r, msg) ==
  /\ reqs[r].pc = "categorize" => (cat.pc = "threw" /\ msg = cat.error)
  /\ StageThrows(r, msg)

\* 3. this.dataSelector.select(dataActions, providerData) is called.
FlowSelect(r) ==
  /\ reqs[r].pc = "select"
  /\ cat.pc = "returned"
  /\ Select(entries(cat.dataActions, keysFrom(cat.classifications, 1, "DATA", <<>>)))

\* 3. inside the run's select, the inference call of group g resolves with
\* names of the group's own capabilities.
FlowSelModelReturns(g, relevant) ==
  /\ AtGroup(g)
  /\ relevant \subseteq Range(sel.groups[g].actions)
  /\ SelModelReturns(g, relevant)

\* 4. this.dataExecutor.execute(selectedDataActions) is called.
FlowExecute(r) ==
  /\ reqs[r].pc = "execute"
  /\ sel.pc = "returned"
  /\ Execute(sel.relevantActions)

\* What a step of execute inside a run leaves alone.
outsideFlowExec == <<store, analysisResults, sel, stages, decisionPath>>

\* 4. inside the run's execute, a trigger inference resolves with a string.
FlowTriggerReturns(r, i) ==
  /\ reqs[r].pc = "execute"
  /\ AtPipe(i, "trigger")
  /\ exec' = TriggerReturned(i)
  /\ reqs' = [reqs EXCEPT ![r] = RoomTracked(@)]
  /\ UNCHANGED outsideFlowExec

\* 4. inside the run's execute, an ensureRoomExists resolves.
FlowRoomOk(r, i) ==
  /\ reqs[r].pc = "execute"
  /\ AtPipe(i, "room")
  /\ exec' = RoomEnsured(i)
  /\ reqs' = [reqs EXCEPT ![r] = RoomCreated(@)]
  /\ UNCHANGED outsideFlowExec

\* 4-5. the awaited execute resolved; analysisGenerator.generate is called.
FlowExecuteReturns(r) ==
  /\ exec.pc = "returned"
  /\ ExecuteReturns(r)

\* 6. this.recommendationGenerator.generate(...) is called.
FlowGenerate(r) ==
  /\ reqs[r].pc = "recommend"
  /\ cat.pc = "returned"
  /\ Generate(AnalysisId(r),
              entries(cat.actionActions, keysFrom(cat.classifications, 1, "ACTION", <<>>)))

\* 6. inside the run's generate, the selection call of group g resolves
\* with names of the group's own capabilities.
FlowGenSelectReturns(g, relevant) ==
  /\ AtSelection(g)
  /\ relevant \subseteq Range(gen.groups[g].actions)
  /\ GenSelectReturns(g, relevant)

\* 6. inside the run's generate, a recommendation call resolves with a
\* recommendation for the capability it was asked about.
FlowRecReturns(g, k, confident) ==
  /\ AtItem(g, k)
  /\ GenRecReturns(g, k, gen.outs[g].items[k].name, confident, 1)

\* 6-8. the awaited generate resolved; saveAnalysis is called.
FlowRecommendReturns(r) ==
  /\ gen.pc = "returned"
  /\ RecommendReturns(r, [k \in 1..Len(gen.result) |-> gen.result[k].confident])

\* The outcomes of a dispatch told apart here: no result, or a successful one.
FlowCached == {cached \in CachedResults : cached = <<>> \/ cached[1].data # ""}

FlowNext ==
  \/ \E r \in {1} : RunDirect(r)
  \/ \E r \in {1}, allActions \in FlowCapabilityLists : FlowCategorize(r, allActions)
  \/ \E i \in 1..MaxFlowActions, response \in CatResponses : CatModelReturns(i, response)
  \/ \E i \in 1..MaxFlowActions, value \in Nullish : CatModelMalformed(i, value)
  \/ \E i \in 1..MaxFlowActions : CatModelThrows(i, LlmError)
  \/ CategorizeReturn
  \/ \E r \in {1} : FlowStageReturns(r)
  \/ \E r \in {1}, msg \in {LlmError} \cup {CategoryTypeError(value) : value \in Nullish} :
       FlowStageThrows(r, msg)
  \/ \E r \in {1} : FlowSelect(r)
  \/ \E g \in 1..MaxFlowActions : \E relevant \in SUBSET FlowNames : FlowSelModelReturns(g, relevant)
  \/ \E g \in 1..MaxFlowActions : SelModelThrows(g, LlmError)
  \/ SelectReturn
  \/ \E r \in {1} : FlowExecute(r)
  \/ \E r \in {1}, i \in 1..MaxFlowActions : FlowTriggerReturns(r, i)
  \/ \E i \in 1..MaxFlowActions : ExecTriggerThrows(i, LlmError)
  \/ \E r \in {1}, i \in 1..MaxFlowActions : FlowRoomOk(r, i)
  \/ \E i \in 1..MaxFlowActions, cached \in FlowCached : ExecDispatchReturns(i, cached)
  \/ ExecuteReturn
  \/ \E r \in {1} : FlowExecuteReturns(r)
  \/ \E r \in {1} : InsightReturns(r)
  \/ \E r \in {1} : InsightThrows(r, LlmError)
  \/ \E r \in {1} : FlowGenerate(r)
  \/ \E g \in 1..MaxFlowActions : \E relevant \in SUBSET FlowNames : FlowGenSelectReturns(g, relevant)
  \/ \E g \in 1..MaxFlowActions, error \in GenErrors : GenSelectThrows(g, error)
  \/ \E g \in 1..MaxFlowActions, k \in 1..MaxFlowActions, confident \in BOOLEAN :
       FlowRecReturns(g, k, confident)
  \/ \E g \in 1..MaxFlowActions, k \in 1..MaxFlowActions, error \in GenErrors :
       GenRecThrows(g, k, error)
  \/ \E g \in 1..MaxFlowActions : GenGroupJoin(g)
  \/ GenerateReturn
  \/ \E r \in {1} : FlowRecommendReturns(r)
  \/ \E r \in {1} : Insert1Ok(r)
  \/ \E r \in {1} : Insert1Throws(r)
  \/ \E r \in {1} : Insert2Ok(r)
  \/ \E r \in {1} : Insert2Throws(r)
  \/ \E r \in {1}, deleted \in BOOLEAN : DeleteRoomSettles(r, deleted)
  \/ \E r \in {1}, deleted \in BOOLEAN : CleanupSettles(r, deleted)

\* One direct run of runAnalysis with every stage's calls.
FlowSpec == RunInit /\ [][FlowNext]_vars

\* ------------------------------------ capability invocations and stateCache
\* The part DataExecutor.execute's callbacks and processExecutingActions
\* share: a messageId and a roomId are drawn, the room is created, the
\* capability is dispatched with memory.id = messageId, and the result is
\* read from the host's registry under messageId.

\* Who invokes: a callback of an execute call (siblings, or different runs)
\* or the background execution of an accepted Recommendation.
InvKinds == {"execute", "background"}

\* What an invocation leaves alone.
outsideCorr == <<store, now, faults, calls, tasks, nTasks, stateCache,
                 analysisResults, reqs, exec, sel, gen, cat, repo, clean, world>>

\* crypto.randomUUID(): the values a draw may give.  A version-4 UUID is
\* 122 random bits; no draw is checked against the ids in use.
randomUUID == 1..MaxUuid

\* runtime.getActionResults(messageId)
getActionResults(cache, messageId) ==
  IF messageId \in DOMAIN cache THEN cache[messageId] ELSE <<>>

\* messageId and roomId are drawn and ensureRoomExists is awaited.
InvStart(i, kind, messageId, roomId) ==
  /\ corr.inv[i].pc = "idle"
  /\ corr' = [corr EXCEPT !.inv[i] = [IdleInv EXCEPT !.pc = "room", !.kind = kind,
                                        !.messageId = messageId,
                                        !.roomId = roomId]]
  /\ UNCHANGED outsideCorr

\* ensureRoomExists resolved; the id of the response is drawn and
\* runtime.processActions(memory, responses) is called.
InvRoomOk(i) ==
  /\ corr.inv[i].pc = "room"
  /\ corr' = [corr EXCEPT !.inv[i].pc = "dispatch"]
  /\ UNCHANGED outsideCorr

\* The host ran the capability and stored its results under memory.id.
InvHostStores(i, produced) ==
  /\ corr.inv[i].pc = "dispatch"
  /\ corr' = [corr EXCEPT !.cache = (corr.inv[i].messageId :> produced) @@ @,
                          !.inv[i].pc = "stored",
                          !.inv[i].produced = produced]
  /\ UNCHANGED outsideCorr

\* The awaited processActions resolved: getActionResultFromCache(runtime,
\* messageId).
InvDispatchReturns(i) ==
  /\ corr.inv[i].pc = "stored"
  /\ corr' = [corr EXCEPT !.inv[i].pc = "done",
                          !.inv[i].read =
                             LET actionResults == getActionResults(corr.cache, corr.inv[i].messageId)
                             IN IF Len(actionResults) > 0 THEN <<actionResults[1]>> ELSE <<>>]
  /\ UNCHANGED outsideCorr

CorrNext ==
  \/ \E i \in 1..MaxInv, kind \in InvKinds, messageId \in randomUUID, roomId \in randomUUID :
       InvStart(i, kind, messageId, roomId)
  \/ \E i \in 1..MaxInv : InvRoomOk(i)
  \/ \E i \in 1..MaxInv, produced \in CachedResults : InvHostStores(i, produced)
  \/ \E i \in 1..MaxInv : InvDispatchReturns(i)

\* Capability invocations in flight together, everything else at rest.
CorrSpec == RunInit /\ [][CorrNext]_vars

\* ------------------------------------------------------------ specification
Next ==
  \/ \E c \in Callers, ds \in Batches : StartCall(c, ds)
  \/ \E c \in Callers : Reject(c)
  \/ \E c \in Callers : RejectThrows(c)
  \/ \E c \in Callers : AcceptFetch(c)
  \/ \E c \in Callers : AcceptFetchThrows(c)
  \/ \E c \in Callers : AcceptUpdate(c)
  \/ \E c \in Callers : AcceptUpdateThrows(c)
  \/ \E c \in Callers : Return(c)
  \/ \E c \in Callers, body \in Bodies, workerService \in BOOLEAN :
       decideActionsHandler(c, body, workerService)
  \/ \E t \in TaskIds : RefetchOk(t)
  \/ \E t \in TaskIds : RefetchNotInRuntime(t)
  \/ \E t \in TaskIds : RefetchNotFound(t)
  \/ \E t \in TaskIds : RefetchThrows(t)
  \/ \E t \in TaskIds : RoomOk(t)
  \/ \E t \in TaskIds, msg \in HostErrors : RoomThrows(t, msg)
  \/ \E t \in TaskIds, cached \in CachedResults : DispatchReturns(t, cached)
  \/ \E t \in TaskIds, msg \in HostErrors : DispatchThrows(t, msg)
  \/ \E t \in TaskIds : WriteOutcome(t)
  \/ \E t \in TaskIds : WriteThrows(t)
  \/ \E t \in TaskIds : CatchWrite(t)
  \/ \E t \in TaskIds : CatchWriteThrows(t)
  \/ Tick

Spec == Init /\ [][Next]_vars

\* Every step of one background task: the event loop resumes a task whose
\* awaited promise has settled.
TaskStep(t) ==
  \/ RefetchOk(t) \/ RefetchNotInRuntime(t) \/ RefetchNotFound(t) \/ RefetchThrows(t)
  \/ RoomOk(t) \/ (\E msg \in HostErrors : RoomThrows(t, msg))
  \/ (\E cached \in CachedResults : DispatchReturns(t, cached))
  \/ (\E msg \in HostErrors : DispatchThrows(t, msg))
  \/ WriteOutcome(t) \/ WriteThrows(t)
  \/ CatchWrite(t) \/ CatchWriteThrows(t)

\* Every step of one processDecisions invocation once it has been entered.
CallStep(c) ==
  \/ Reject(c) \/ RejectThrows(c)
  \/ AcceptFetch(c) \/ AcceptFetchThrows(c)
  \/ AcceptUpdate(c) \/ AcceptUpdateThrows(c)
  \/ Return(c)

\* The store, the host and the event loop make progress: every awaited call
\* returns or throws, so a task or an invocation that can step does step.
FairSpec ==
  /\ Init /\ [][Next]_vars
  /\ \A t \in TaskIds : WF_vars(TaskStep(t))
  /\ \A c \in Callers : WF_vars(CallStep(c))

TypeOK ==
  /\ now \in 0..MaxTime
  /\ faults \in 0..MaxFaults
  /\ nTasks \in 0..MaxTasks
  /\ \A id \in Ids : store[id].status \in {"pending", "rejected", "executing", "completed", "failed"}

\* ------------------------------------------------------------------ claims

Terminal == {"completed", "failed"}

\* A background task of Recommendation id has been launched and has not
\* settled, or an accept of id is between its fetch and its UPDATE.
InFlight(id) ==
  \/ \E t \in TaskIds : tasks[t].actionId = id /\ tasks[t].pc \notin {"unused", "done"}
  \/ \E c \in Callers : calls[c].pc = "update" /\ calls[c].action[1].id = id

\* C1: every change of a Recommendation's stored status is one of
\* pending->rejected, pending->executing, executing->completed,
\* executing->failed, so rejected, completed and failed are terminal.
AllowedTransitions ==
  { <<"pending", "rejected">>, <<"pending", "executing">>,
    <<"executing", "completed">>, <<"executing", "failed">> }
C1_StatusTransitions ==
  [][\A id \in Ids :
       store'[id].status # store[id].status
         => <<store[id].status, store'[id].status>> \in AllowedTransitions]_vars

\* C2: a Recommendation is never left in executing: once no
\* background task of it is in flight any more, its status is not executing.
C2_NeverLeftExecuting ==
  \A id \in Ids : ~InFlight(id) => store[id].status # "executing"

\* C3: for an accept of an existing Recommendation whose UPDATE does not
\* throw, processDecisions has written status executing and as decidedAt the
\* clock it read when it issued the UPDATE (a time of this accept, not after
\* the present) when the accept is done, lists the Recommendation as
\* accepted with status executing and the present time, and has only
\* launched the background task (it sits at its first await, nothing
\* dispatched); and the return of processDecisions waits for no background
\* task.
C3_AcceptSynchronous ==
  /\ [][\A c \in Callers :
          (calls[c].pc = "update" /\ calls'[c].pc = "loop" /\ faults' = faults)
            => LET id == Head(calls[c].decisions).actionId
                   e  == calls'[c].accepted[Len(calls'[c].accepted)]
               IN /\ Len(calls'[c].accepted) = Len(calls[c].accepted) + 1
                  /\ e.id = id /\ e.status = "executing" /\ e.decidedAt = now
                  /\ store'[id].status = "executing"
                  /\ store'[id].decidedAt = calls[c].setAt
                  /\ calls[c].setAt \in 0..now
                  /\ tasks'[nTasks'].actionId = id /\ tasks'[nTasks'].pc = "fetch"
                  /\ ~tasks'[nTasks'].dispatched]_vars
  /\ [](\A c \in Callers :
          (calls[c].pc = "loop" /\ calls[c].decisions = <<>>) => ENABLED Return(c))

\* C3 witness: processDecisions has returned an accepted Recommendation
\* while its background task has not even re-fetched the row.
C3_Witness ==
  \E c \in Callers, t \in TaskIds :
    /\ calls[c].pc = "done" /\ Len(calls[c].accepted) = 1
    /\ calls[c].accepted[1].status = "executing"
    /\ calls[c].accepted[1].decidedAt # NoTime
    /\ tasks[t].actionId = calls[c].accepted[1].id /\ tasks[t].pc = "fetch"
    /\ store[calls[c].accepted[1].id].status = "executing"
    /\ store[calls[c].accepted[1].id].decidedAt = calls[c].accepted[1].decidedAt

\* C4: a reject decision on a pending Recommendation touches no background
\* task and no host state, leaves result, error, errorType and executedAt
\* alone, and either sets status rejected and as decidedAt the clock read
\* when the UPDATE was issued (not after the present) and lists the id as
\* rejected, or (the UPDATE threw) writes and lists nothing.
C4_RejectFrame ==
  [][\A c \in Callers :
       (/\ AtDecision(c, "reject") /\ calls'[c] # calls[c]
        /\ Head(calls[c].decisions).actionId \in Ids
        /\ store[Head(calls[c].decisions).actionId].status = "pending")
         => LET id == Head(calls[c].decisions).actionId
            IN /\ tasks' = tasks /\ nTasks' = nTasks /\ stateCache' = stateCache
               /\ store'[id].result = store[id].result
               /\ store'[id].error = store[id].error
               /\ store'[id].errorType = store[id].errorType
               /\ store'[id].executedAt = store[id].executedAt
               /\ store'[id].actionType = store[id].actionType
               /\ \/ /\ faults' = faults + 1
                     /\ store' = store
                     /\ calls'[c].rejected = calls[c].rejected
                  \/ /\ faults' = faults
                     /\ store'[id].status = "rejected"
                     /\ store'[id].decidedAt = calls[c].setAt
                     /\ calls[c].setAt \in 0..now
                     /\ calls'[c].rejected =
                          Append(calls[c].rejected, [actionId |-> id, status |-> "rejected"])]_vars

\* C4 witness: a pending Recommendation was rejected; nothing was launched.
C4_Witness ==
  \E c \in Callers, id \in Ids :
    /\ calls[c].pc = "done"
    /\ calls[c].rejected = <<[actionId |-> id, status |-> "rejected"]>>
    /\ store[id].status = "rejected" /\ store[id].decidedAt # NoTime
    /\ store[id].executedAt = NoTime /\ store[id].errorType = NullText
    /\ store[id].error = NullText /\ store[id].result = <<>>
    /\ nTasks = 0

\* C5: decidedAt is null if and only if status is pending.
C5_DecidedIffNotPending ==
  \A id \in Ids : (store[id].decidedAt = NoTime) <=> (store[id].status = "pending")

\* C6: executedAt is null unless status is completed or failed.
C6_ExecutedOnlyTerminal ==
  \A id \in Ids : store[id].executedAt # NoTime => store[id].status \in Terminal

\* C7: decidedAt and executedAt are write-once: a value already set is never
\* overwritten.
C7_WriteOnce ==
  [][\A id \in Ids :
       /\ store[id].decidedAt # NoTime => store'[id].decidedAt = store[id].decidedAt
       /\ store[id].executedAt # NoTime => store'[id].executedAt = store[id].executedAt]_vars

\* The Recommendation's actionType names no capability of the host.
Unregistered(id) == id \in Ids /\ store[id].actionType \notin RuntimeActions

\* C8: the background task of a Recommendation whose actionType names no
\* capability never creates a room, dispatches or looks a result up; its
\* re-fetch ends in the catch block with the not-found message, and the
\* failure UPDATE stores status failed, errorType initialization, the error
\* message and executedAt.
C8_UnknownCapabilityFails ==
  /\ [](\A t \in TaskIds :
          Unregistered(tasks[t].actionId)
            => ~tasks[t].room /\ ~tasks[t].dispatched /\ ~tasks[t].looked)
  /\ [][\A t \in TaskIds :
          (/\ tasks[t].pc = "fetch" /\ tasks'[t].pc # "fetch"
           /\ Unregistered(tasks[t].actionId) /\ faults' = faults)
            => /\ tasks'[t].pc = "catch"
               /\ tasks'[t].errorMessage =
                    "Action " \o store[tasks[t].actionId].actionType \o " not found in runtime"]_vars
  /\ [][\A t \in TaskIds :
          (/\ tasks[t].pc = "catch" /\ tasks'[t].pc = "done" /\ ~tasks'[t].lost
           /\ Unregistered(tasks[t].actionId)
           /\ Includes(tasks[t].errorMessage, "not found in runtime"))
            => LET row == store'[tasks[t].actionId]
               IN /\ row.status = "failed"
                  /\ row.errorType = "initialization"
                  /\ row.error = tasks[t].errorMessage
                  /\ row.executedAt = tasks[t].executedAt
                  /\ row.executedAt # NoTime]_vars

\* C8 witness: an accepted Recommendation of an unregistered actionType is
\* stored as failed / initialization, its task done and nothing dispatched.
C8_Witness ==
  \E t \in TaskIds :
    /\ tasks[t].pc = "done" /\ Unregistered(tasks[t].actionId) /\ ~tasks[t].dispatched
    /\ store[tasks[t].actionId].status = "failed"
    /\ store[tasks[t].actionId].errorType = "initialization"
    /\ Includes(store[tasks[t].actionId].error, "not found")
    /\ store[tasks[t].actionId].executedAt # NoTime
    /\ store[tasks[t].actionId].decidedAt # NoTime

\* C9: when the dispatched capability left a result with success = false,
\* or no result, under the task's correlation id, the outcome UPDATE stores
\* status failed, errorType execution, executedAt, and as error the
\* capability's error text (the default "Action execution failed" when the
\* result carries none), respectively the fixed no-result message.
C9_CapabilityFailure ==
  [][\A t \in TaskIds :
       (/\ tasks[t].pc = "write" /\ tasks'[t].pc = "done"
        /\ tasks[t].actionId \in Ids
        /\ (tasks[t].actionResult = <<>> \/ ~tasks[t].actionResult[1].success))
         => LET row == store'[tasks[t].actionId]
                ar  == tasks[t].actionResult
            IN /\ tasks[t].dispatched /\ tasks[t].looked
               /\ ar = getActionResultFromCache(stateCache, t)
               /\ row.status = "failed"
               /\ row.errorType = "execution"
               /\ row.executedAt = tasks[t].executedAt
               /\ row.executedAt # NoTime
               /\ row.error = IF ar = <<>> THEN "No result returned from action"
                              ELSE IF ar[1].error.kind \in {"string", "Error"}
                                   THEN ar[1].error.msg
                                   ELSE "Action execution failed"]_vars

\* C9 witness: the capability signalled "Insufficient balance" and the
\* Recommendation is stored as failed / execution with that text.
C9_Witness ==
  \E t \in TaskIds :
    /\ tasks[t].pc = "done" /\ tasks[t].actionId \in Ids /\ tasks[t].dispatched
    /\ stateCache[t] # <<>> /\ ~stateCache[t][1].success
    /\ store[tasks[t].actionId].status = "failed"
    /\ store[tasks[t].actionId].errorType = "execution"
    /\ store[tasks[t].actionId].error = "Insufficient balance"
    /\ store[tasks[t].actionId].executedAt # NoTime

\* C10: when the dispatched capability left a result with success = true,
\* the outcome UPDATE stores status completed, the result payload (the
\* capability's text, or the JSON of its data or values, the data or values,
\* and the execution time) and executedAt; and a Recommendation is completed
\* only when a dispatch for it has returned.
C10_SuccessCompletes ==
  /\ [](\A id \in Ids :
          store[id].status = "completed"
            => /\ store[id].result # <<>> /\ store[id].executedAt # NoTime
               /\ \E t \in TaskIds :
                    /\ tasks[t].actionId = id /\ tasks[t].pc = "done"
                    /\ tasks[t].dispatched /\ tasks[t].looked
                    /\ stateCache[t] # <<>> /\ stateCache[t][1].success)
  /\ [][\A t \in TaskIds :
          (/\ tasks[t].pc = "write" /\ tasks'[t].pc = "done"
           /\ tasks[t].actionId \in Ids
           /\ tasks[t].actionResult # <<>> /\ tasks[t].actionResult[1].success)
            => LET row == store'[tasks[t].actionId]
                   ar  == tasks[t].actionResult[1]
                   payload == IF ar.data # "" THEN ar.data ELSE ar.values
               IN /\ row.status = "completed"
                  /\ row.error = NullText
                  /\ row.executedAt = tasks[t].executedAt
                  /\ row.executedAt # NoTime
                  /\ row.result =
                       << [ text |-> IF ar.text # "" THEN [kind |-> "text", of |-> ar.text]
                                     ELSE [kind |-> "json", of |-> payload],
                            data |-> payload,
                            timestamp |-> tasks[t].executedAt ] >>]_vars

\* C10 witness: the capability succeeded and the Recommendation is stored
\* as completed with the capability's payload.
C10_Witness ==
  \E t \in TaskIds :
    /\ tasks[t].pc = "done" /\ tasks[t].actionId \in Ids /\ tasks[t].looked
    /\ store[tasks[t].actionId].status = "completed"
    /\ store[tasks[t].actionId].result # <<>>
    /\ store[tasks[t].actionId].result[1].data = "d1"
    /\ store[tasks[t].actionId].result[1].timestamp = store[tasks[t].actionId].executedAt
    /\ store[tasks[t].actionId].executedAt # NoTime

\* C11: the errorType stored for a Recommendation is absent, initialization
\* or execution; the background execution writes no other error kind.
C11_ErrorTypeDomain ==
  \A id \in Ids : store[id].errorType \in {NullText, "initialization", "execution"}

\* C12: errorType is present only when status is failed: a Recommendation
\* that is pending, rejected, executing or completed has no errorType.
C12_ErrorTypeOnlyFailed ==
  \A id \in Ids : store[id].status # "failed" => store[id].errorType = NullText

\* C13: processDecisions never throws and a decision that fails is skipped:
\* the loop goes on with the next decision having written nothing, an
\* invocation that is inside its loop can always step, and a failed decision
\* has no effect of its own, so while no accept has succeeded no
\* Recommendation is executing, completed or failed and no capability has
\* been dispatched for one.
C13_FailureSkipped ==
  /\ [][\A c \in Callers :
          (/\ calls[c].pc \in {"loop", "update"}
           /\ Len(calls'[c].decisions) < Len(calls[c].decisions)
           /\ calls'[c].accepted = calls[c].accepted
           /\ calls'[c].rejected = calls[c].rejected)
            => /\ calls'[c].pc = "loop"
               /\ calls'[c].decisions = Tail(calls[c].decisions)
               /\ store' = store]_vars
  /\ [](\A c \in Callers : calls[c].pc \in {"loop", "update"} => ENABLED CallStep(c))
  /\ []((\A c \in Callers : calls[c].accepted = <<>>)
          => /\ \A id \in Ids : store[id].status \in {"pending", "rejected"}
             /\ \A t \in TaskIds : tasks[t].actionId \in Ids => ~tasks[t].dispatched)

\* C14: the accepted / rejected breakdown lists a decision's id only if the
\* decision succeeded: an id that matches no Recommendation is in neither
\* list.
C14_BreakdownOnlySucceeded ==
  \A c \in Callers :
    /\ \A i \in 1..Len(calls[c].accepted) : calls[c].accepted[i].id \in DOMAIN store
    /\ \A i \in 1..Len(calls[c].rejected) : calls[c].rejected[i].actionId \in DOMAIN store

\* The request body is one the endpoint accepts: decisions is a non-empty
\* array, each actionId a non-empty string, each decision accept or reject.
WellFormed(body) ==
  /\ body.isArray /\ Len(body.decisions) > 0
  /\ \A i \in 1..Len(body.decisions) :
       /\ body.decisions[i].kind = "object"
       /\ body.decisions[i].actionId # ""
       /\ body.decisions[i].decision \in {"accept", "reject"}

\* C15: POST /actions/decide validates every decision before processing
\* any: a request that is not passed on to processDecisions is answered
\* with 400 (500 when the service is missing), modifies no Recommendation
\* and launches nothing, now or later; and no request with an invalid
\* decision is passed on.
C15_InvalidAnswers400 ==
  /\ [][\A c \in Callers :
          (calls[c].pc = "idle" /\ calls'[c].pc \notin {"idle", "loop"})
            => /\ ~WellFormed(calls'[c].request)
               /\ calls'[c].response.status =
                    IF calls'[c].response.code = "SERVICE_NOT_FOUND" THEN 500 ELSE 400
               /\ store' = store /\ tasks' = tasks /\ nTasks' = nTasks]_vars
  /\ [][\A c \in Callers : calls[c].pc \in {"sent", "threw"} => calls'[c] = calls[c]]_vars
  /\ [](\A c \in Callers :
          calls[c].pc \in {"loop", "update"}
            => \A i \in 1..Len(calls[c].decisions) :
                 /\ calls[c].decisions[i].actionId # ""
                 /\ calls[c].decisions[i].decision \in {"accept", "reject"})

\* C16: when the Insight Generator's inference call fails, runAnalysis fails
\* with that error: the run ends there, the recommendation generator is
\* never called, and neither an Analysis row nor a Recommendation row of the
\* run is ever persisted.
C16_InsightFailureAborts ==
  /\ [][\A r \in Runs :
          (reqs[r].pc = "insight" /\ reqs'[r].pc \notin {"insight", "recommend"})
            => /\ reqs'[r].pc = "failed"
               /\ reqs'[r].failedAt = "insight"
               /\ reqs'[r].error = LlmError
               /\ reqs'[r].settled \in {"logged", "thrown"}
               /\ store' = store /\ analysisResults' = analysisResults]_vars
  /\ [](\A r \in Runs :
          reqs[r].failedAt = "insight"
            => /\ reqs[r].pc = "failed"
               /\ ~reqs[r].recCalled
               /\ getAnalysisResult(analysisResults, store, AnalysisId(r)) = <<>>
               /\ \A id \in DOMAIN store : store[id].analysisId # AnalysisId(r))

\* C16 witness: a run got as far as the insight generation, whose inference
\* call threw, and has failed with that error, nothing persisted.
C16_Witness ==
  \E r \in Runs :
    /\ reqs[r].pc = "failed" /\ reqs[r].failedAt = "insight"
    /\ reqs[r].error = LlmError /\ ~reqs[r].recCalled
    /\ analysisResults = SeedRows

\* C17: a failed run never produces a retrievable Analysis: no Analysis of
\* a run that has failed is returned by getAnalysisResult or
\* getAnalysesByAgentId.
C17_FailedRunNotRetrievable ==
  \A r \in Runs :
    reqs[r].pc = "failed"
      => /\ getAnalysisResult(analysisResults, store, AnalysisId(r)) = <<>>
         /\ AnalysisId(r) \notin getAnalysesByAgentId(analysisResults, Agent)

\* The stages of a launched run, and its two outcomes.
RunStages ==
  {"categorize", "collect", "select", "execute", "insight", "recommend",
   "insert1", "insert2", "cleanup"}

\* C18: POST /analysis sends its acknowledgment once the service lookup and
\* the wallet check have passed, in the step that launches the run, so
\* before the run has completed; a request never gets a second response and
\* gets exactly one once the handler is past its checks; and a failure of
\* the run leaves the response as it was and is consumed by the handler's
\* catch callback.
C18_AcknowledgedBeforeRun ==
  /\ [](\A r \in Runs : Len(reqs[r].responses) <= 1)
  /\ [][\A r \in Runs :
          reqs[r].responses # <<>> => reqs'[r].responses = reqs[r].responses]_vars
  /\ [](\A r \in Runs :
          (reqs[r].caller = "route" /\ reqs[r].pc \notin {"idle", "wallet"})
            => Len(reqs[r].responses) = 1)
  /\ [][\A r \in Runs :
          (reqs[r].pc = "wallet" /\ reqs'[r].pc \notin {"wallet", "closed"})
            => /\ reqs'[r].pc = "categorize"
               /\ reqs'[r].responses = <<[status |-> 201, code |-> "processing"]>>]_vars
  /\ [](\A r \in Runs :
          (reqs[r].caller = "route" /\ reqs[r].pc \in RunStages \cup {"completed", "failed"})
            => reqs[r].responses = <<[status |-> 201, code |-> "processing"]>>)
  /\ [](\A r \in Runs :
          (reqs[r].caller = "route" /\ reqs[r].pc = "failed") => reqs[r].settled = "logged")

\* C18 witness: a request was acknowledged with 201, its run failed later,
\* the failure was logged and the response is still the acknowledgment.
C18_Witness ==
  \E r \in Runs :
    /\ reqs[r].caller = "route" /\ reqs[r].pc = "failed"
    /\ reqs[r].failedAt = "insert1" /\ reqs[r].settled = "logged"
    /\ reqs[r].responses = <<[status |-> 201, code |-> "processing"]>>

\* Some step of the running execute call can be taken.
ExecCanStep ==
  \/ ENABLED ExecuteReturn
  \/ \E i \in 1..Len(exec.pipes) : exec.pipes[i].pc # "done"

\* C19: execute never throws (a running call can always step and ends by
\* returning) and returns one result per input capability, in input order;
\* a capability whose pipeline threw yields success = false with the thrown
\* message, every other capability yields the result of its own dispatch,
\* and a step of one capability's pipeline leaves the other pipelines alone.
C19_ExecuteIsolatesFailures ==
  /\ [](exec.pc = "running" => ExecCanStep)
  /\ [](exec.pc = "returned"
          => /\ Len(exec.results) = Len(exec.dataActions)
             /\ \A i \in 1..Len(exec.dataActions) :
                  LET res == exec.results[i]
                      pipe == exec.pipes[i]
                  IN /\ res.actionType = exec.dataActions[i]
                     /\ pipe.threw # ""
                          => /\ ~res.success /\ res.error = pipe.threw
                             /\ res.data = NullText
                     /\ (pipe.threw = "" /\ pipe.cached = <<>>)
                          => ~res.success /\ res.error = "No result returned from action"
                     /\ (pipe.threw = "" /\ pipe.cached # <<>>)
                          => /\ res.success = pipe.cached[1].success
                             /\ res.success => res.data \in {pipe.cached[1].data, pipe.cached[1].values})
  /\ [][\A i, j \in 1..MaxActions :
          (/\ exec.pc = "running" /\ exec'.pc = "running"
           /\ i # j /\ i <= Len(exec.pipes) /\ j <= Len(exec.pipes)
           /\ exec'.pipes[i] # exec.pipes[i])
            => exec'.pipes[j] = exec.pipes[j]]_vars

\* C19 witness: execute has returned two results; the first capability's
\* room creation threw and its result is failed with that message, while
\* the second capability's result is the successful one of its dispatch.
C19_Witness ==
  /\ exec.pc = "returned" /\ Len(exec.results) = 2
  /\ exec.pipes[1].threw \in HostErrors
  /\ ~exec.results[1].success /\ exec.results[1].error = exec.pipes[1].threw
  /\ exec.createdRoomIds = <<2, 1>>
  /\ exec.results[2].success /\ exec.results[2].data = "d1"

\* C20: select never throws (a running call can always step and ends by
\* returning); a group whose inference call threw contributes no
\* capability, and every capability another group's response selected is in
\* the result, which holds nothing else.
C20_SelectIsolatesFailures ==
  /\ [](sel.pc = "running"
          => \/ ENABLED SelectReturn
             \/ \E g \in 1..Len(sel.outs) : sel.outs[g].pc = "model")
  /\ [](sel.pc = "returned"
          => /\ \A g \in 1..Len(sel.groups) :
                  IF sel.outs[g].threw # ""
                  THEN Range(sel.groups[g].actions) \cap Range(sel.relevantActions) = {}
                  ELSE Range(sel.groups[g].actions) \cap Range(sel.relevantActions)
                         = Range(sel.groups[g].actions) \cap sel.outs[g].relevant
             /\ Range(sel.relevantActions)
                  \subseteq UNION { Range(sel.groups[g].actions) : g \in 1..Len(sel.groups) })

\* C20 witness: the inference call of the first group threw, the second
\* group's response selected a capability, and select returned exactly the
\* second group's selection.
C20_Witness ==
  /\ sel.pc = "returned" /\ Len(sel.groups) = 2
  /\ sel.outs[1].threw = LlmError
  /\ sel.outs[2].threw = "" /\ sel.outs[2].selected # <<>>
  /\ sel.relevantActions = sel.outs[2].selected

\* C21: generate never throws on an inference failure (a running call can
\* always step and ends by returning), the returned list has no null
\* entry, and a Recommendation is missing from it only when its own group's
\* selection call or its own recommendation call failed: every
\* Recommendation a callback built, in a group whose selection call
\* returned, is in the returned list.
C21_GenerateIsolatesFailures ==
  /\ [](gen.pc = "running"
          => \/ ENABLED GenerateReturn
             \/ \E g \in 1..Len(gen.outs) :
                  \/ gen.outs[g].pc = "select"
                  \/ ENABLED GenGroupJoin(g)
                  \/ \E k \in 1..Len(gen.outs[g].items) : gen.outs[g].items[k].pc = "model")
  /\ [](gen.pc = "returned"
          => /\ \A j \in 1..Len(gen.result) : gen.result[j].status = "pending"
             /\ \A g \in 1..Len(gen.outs) :
                  gen.outs[g].selection = "returned"
                    => \A k \in 1..Len(gen.outs[g].items) :
                         gen.outs[g].items[k].pc = "returned"
                           => gen.outs[g].items[k].value[1] \in Range(gen.result))

\* C22: an inference failure for one capability does not fail classify:
\* categorize never ends by throwing, and when it returns, the
\* classification of every capability whose call returned is in
\* classifications.
C22_ClassifyIsolatesFailures ==
  /\ cat.pc # "threw"
  /\ cat.pc = "returned"
       => \A i \in 1..Len(cat.calls) :
            cat.calls[i].pc = "returned" => cat.calls[i].value[1] \in Range(cat.classifications)

\* The places of capability `action` in a returned map, and in the two.
PlacesIn(category, map, action) ==
  UNION { { <<category, t, j>> : j \in { k \in 1..Len(map[t]) : map[t][k] = action } } :
          t \in DOMAIN map }
Places(action) ==
  PlacesIn("DATA", cat.dataActions, action) \cup PlacesIn("ACTION", cat.actionActions, action)

\* Every call resolved with a response of the structured-response
\* contract: category DATA or ACTION.
AllCallsSucceeded ==
  \A i \in 1..Len(cat.calls) :
    /\ cat.calls[i].pc = "returned"
    /\ cat.calls[i].value[1].category \in Categories

\* C23: when every inference call succeeds on a non-empty capability set,
\* classifications holds one entry per input capability, in input order,
\* every input capability is at exactly one place of the two maps, under the
\* category and sub-type of its classification, and the maps hold nothing
\* else.
C23_ClassifyPartitions ==
  (cat.pc = "returned" /\ Len(cat.allActions) > 0 /\ AllCallsSucceeded)
    => /\ Len(cat.classifications) = Len(cat.allActions)
       /\ \A i \in 1..Len(cat.allActions) :
            /\ cat.classifications[i].action = cat.allActions[i]
            /\ Cardinality(Places(cat.allActions[i])) = 1
            /\ \A p \in Places(cat.allActions[i]) :
                 /\ p[1] = cat.classifications[i].category
                 /\ p[2] = cat.classifications[i].actionType
       /\ \A t \in DOMAIN cat.dataActions :
            Range(cat.dataActions[t]) \subseteq Range(cat.allActions)
       /\ \A t \in DOMAIN cat.actionActions :
            Range(cat.actionActions[t]) \subseteq Range(cat.allActions)

\* C23 witness: two capabilities classified DATA under the same sub-type,
\* both in that sub-type's list.
C23_Witness ==
  /\ cat.pc = "returned" /\ Len(cat.allActions) = 2 /\ AllCallsSucceeded
  /\ cat.classifications[1].category = "DATA"
  /\ cat.classifications[2].category = "DATA"
  /\ cat.classifications[1].actionType = cat.classifications[2].actionType
  /\ cat.dataActions[cat.classifications[1].actionType] = cat.allActions

\* C24: execute([]) returns empty results and no room id, and has made no
\* call to its host: no world lookup, no inference call, no room creation,
\* no dispatch, no result lookup.
C24_EmptyExecuteIsInert ==
  (exec.pc = "returned" /\ exec.dataActions = <<>>)
    => /\ exec.results = <<>>
       /\ exec.createdRoomIds = <<>>
       /\ exec.hostCalls = NoHostCalls
       /\ exec.hostRooms = {}

\* C24 witness: execute has returned from an empty input.
C24_Witness ==
  exec.pc = "returned" /\ exec.dataActions = <<>> /\ exec.pipes = <<>>

\* The capabilities whose trigger inference returned a string.
Triggered == { i \in 1..Len(exec.pipes) : exec.pipes[i].trigger = "string" }

\* C25 as stated: the returned room ids are exactly the rooms the call
\* created, and there are as many as results.
C25_RoomIdsMatchResults ==
  exec.pc = "returned"
    => /\ Range(exec.createdRoomIds) = exec.hostRooms
       /\ Len(exec.createdRoomIds) = Len(exec.results)

\* C25 amended: at every moment of the call every room created in the host
\* has its id tracked, so no room is created whose id is not returned; the
\* returned list holds exactly one id per capability whose trigger
\* inference returned a string, hence at most one per result.
C25_CreatedRoomsAreReturned ==
  /\ exec.hostRooms \subseteq Range(exec.createdRoomIds)
  /\ Range(exec.createdRoomIds) = Triggered
  /\ Len(exec.createdRoomIds) = Cardinality(Triggered)
  /\ exec.pc = "returned" => Len(exec.createdRoomIds) <= Len(exec.results)

\* C25 witness: a call over two capabilities returned two results and one
\* room id: the trigger inference of one capability failed, the room of
\* the other was created.
C25_Witness ==
  /\ exec.pc = "returned"
  /\ Len(exec.results) = 2 /\ Len(exec.createdRoomIds) = 1
  /\ exec.hostRooms = Range(exec.createdRoomIds)
  /\ \E i \in 1..2 : exec.pipes[i].trigger = "failed"

\* The last read was of operation op.
HasRead(op) == repo.read # <<>> /\ repo.read[1].op = op

\* C27: once saveAnalysis(analysis, recommendations) has returned,
\* getAnalysisResult(analysis.id) returns the Analysis with as many
\* recommendations as were saved, each saved recommendation among them with
\* the field values it was saved with; and a repeated read returns the same
\* value.
C27_SaveThenGetRoundTrip ==
  /\ [](HasRead("getAnalysisResult")
          => \A n \in 1..Len(repo.saved) :
               repo.saved[n].analysis.id = repo.read[1].arg[1]
                 => /\ repo.read[1].value # <<>>
                    /\ repo.read[1].value[1].id = repo.saved[n].analysis.id
                    /\ repo.read[1].value[1].agentId = repo.saved[n].analysis.agentId
                    /\ repo.read[1].value[1].createdAt = repo.saved[n].analysis.createdAt
                    /\ Cardinality(repo.read[1].value[1].recommendedActions)
                         = Len(repo.saved[n].recommendations)
                    /\ Range(repo.saved[n].recommendations)
                         \subseteq repo.read[1].value[1].recommendedActions)
  /\ [][(HasRead("getAnalysisResult") /\ HasRead("getAnalysisResult")'
           /\ repo.read[1].arg = repo.read'[1].arg)
          => repo.read'[1].value = repo.read[1].value]_vars

\* C28: getActionsByAnalysisId(id) returns every Recommendation stored for
\* the Analysis once and no other, the higher priority ordinal first and,
\* among equal priorities, the higher confidence first.
C28_ActionsSortedByPriorityThenConfidence ==
  HasRead("getActionsByAnalysisId")
    => LET value == repo.read[1].value
           analysisId == repo.read[1].arg[1]
       IN /\ { value[i].id : i \in 1..Len(value) }
               = { row.id : row \in { r \in repo.recommendedActions : r.analysisId = analysisId } }
          /\ \A i, j \in 1..Len(value) : i # j => value[i].id # value[j].id
          /\ \A i \in 1..Len(value) : value[i].analysisId = analysisId
          /\ \A i, j \in 1..Len(value) :
               i < j => \/ PRIORITY_VALUES[value[i].priority] > PRIORITY_VALUES[value[j].priority]
                        \/ /\ PRIORITY_VALUES[value[i].priority] = PRIORITY_VALUES[value[j].priority]
                           /\ value[i].confidence >= value[j].confidence

\* C28 witness: a read returned two Recommendations of equal priority and
\* different confidence while the store holds Recommendations of another
\* Analysis.
C28_Witness ==
  /\ HasRead("getActionsByAnalysisId")
  /\ Len(repo.read[1].value) = 2
  /\ repo.read[1].value[1].priority = repo.read[1].value[2].priority
  /\ repo.read[1].value[1].confidence > repo.read[1].value[2].confidence
  /\ \E row \in repo.recommendedActions : row.analysisId # repo.read[1].arg[1]

\* C29: getAnalysesByAgentId(agentId, limit) returns Analyses of that agent
\* only, each once, min(limit, number stored for the agent) of them, the
\* more recently created first, and none it leaves out was created after
\* one it returns.
C29_AnalysesMostRecentFirst ==
  HasRead("getAnalysesByAgentId")
    => LET value == repo.read[1].value
           agentId == repo.read[1].arg[1]
           limit == repo.read[1].arg[2]
           stored == { row \in repo.analysisResults : row.agentId = agentId }
       IN /\ \A i \in 1..Len(value) :
               /\ value[i].agentId = agentId
               /\ \E row \in stored : row.id = value[i].id
          /\ \A i, j \in 1..Len(value) : i # j => value[i].id # value[j].id
          /\ Len(value) = IF Cardinality(stored) < limit THEN Cardinality(stored) ELSE limit
          /\ \A i, j \in 1..Len(value) : i < j => value[i].createdAt.ms >= value[j].createdAt.ms
          /\ \A row \in stored :
               (\A i \in 1..Len(value) : value[i].id # row.id)
                 => \A i \in 1..Len(value) : row.createdAt <= value[i].createdAt.ms

\* C29 witness: the agent has two Analyses created at different times,
\* another agent has one or none, and a read with limit 1 returned the
\* later one.
C29_Witness ==
  /\ HasRead("getAnalysesByAgentId")
  /\ repo.read[1].arg[2] = 1
  /\ Len(repo.read[1].value) = 1
  /\ \E row \in repo.analysisResults :
       /\ row.agentId = repo.read[1].arg[1]
       /\ row.createdAt < repo.read[1].value[1].createdAt.ms

\* C26: every returned Recommendation is pending, carries the analysisId
\* argument and a creation time, and no two returned Recommendations share
\* an id.
C26_FreshPendingRecommendations ==
  gen.pc = "returned"
    => \A i \in 1..Len(gen.result) :
         /\ gen.result[i].status = "pending"
         /\ gen.result[i].analysisId = gen.analysisId
         /\ gen.result[i].createdAt \in 0..MaxTime
         /\ \A j \in 1..Len(gen.result) : i # j => gen.result[i].id # gen.result[j].id

\* C30: cleanupAnalysisRooms attempts the deletion of every id of its list
\* exactly once (the calls made so far are the ids up to the current one, and
\* at the return they are the whole list), goes on with the remaining ids
\* after a deletion failed (every failure so far is of an id already
\* attempted, and the call returns only with the whole list attempted), and
\* never ends otherwise than by returning.
C30_CleanupAttemptsEveryRoom ==
  /\ clean.pc \in {"idle", "deleting", "returned"}
  /\ clean.pc = "deleting" =>
       /\ clean.at \in 1..Len(clean.roomIds)
       /\ clean.deleteCalls = SubSeq(clean.roomIds, 1, clean.at)
       /\ \A w \in DOMAIN clean.warned :
            \E i \in 1..(clean.at - 1) : clean.warned[w].roomId = clean.roomIds[i]
  /\ clean.pc = "returned" => clean.deleteCalls = clean.roomIds

\* A cleanup of several rooms whose first deletion failed has returned,
\* every room attempted.
C30_Witness ==
  /\ clean.pc = "returned"
  /\ Len(clean.roomIds) = MaxRooms
  /\ Len(clean.warned) >= 1
  /\ clean.warned[1].roomId = clean.roomIds[1]
  /\ clean.deleteCalls = clean.roomIds

\* Every start of an agent's service uses the same world id, whatever the
\* process, and the host holds at most one world of the agent.
WorldKeyedByAgent ==
  /\ \A c, d \in 1..MaxEnsure :
       (world.calls[c].pc # "idle" /\ world.calls[d].pc # "idle"
          /\ world.calls[c].agentId = world.calls[d].agentId)
         => world.calls[c].worldId = world.calls[d].worldId
  /\ \A agentId \in Agents : Cardinality(WorldsOf(agentId)) <= 1

\* C31: ensureAgentWorldExists is idempotent.  Every call for an agent, in
\* any process, uses the one world id derived from the agent's identity,
\* the host never holds more than one world of an agent, and a call made
\* when the agent's world exists asks for no creation and does not throw.
C31_EnsureWorldIdempotent ==
  /\ WorldKeyedByAgent
  /\ \A c \in 1..MaxEnsure :
       world.calls[c].existed =>
         world.calls[c].createCalls = 0 /\ world.calls[c].pc # "threw"

\* The Insight Generator's inference call of run r has been issued.
InsightIssued(r) ==
  \/ reqs[r].pc \in {"insight", "recommend", "insert1", "insert2", "cleanup", "completed"}
  \/ reqs[r].pc = "failed" /\ reqs[r].failedAt \in {"insight", "insert1", "insert2"}

\* saveAnalysis of run r has been called.
SaveCalled(r) ==
  \/ reqs[r].pc \in {"insert1", "insert2", "cleanup", "completed"}
  \/ reqs[r].pc = "failed" /\ reqs[r].failedAt \in {"insert1", "insert2"}

\* C32: in a run of runAnalysis no stage starts before the join of the one
\* before it.  A selection call exists only when every classification call
\* has returned; a capability pipeline exists only when every group's
\* selection is done; the insight call is issued only when every pipeline
\* has its result; generate is called only when the insight call has
\* returned; saveAnalysis is called only when generate has returned.
C32_StagesJoinBeforeNext ==
  /\ sel.pc # "idle" =>
       cat.pc = "returned" /\ \A i \in 1..Len(cat.calls) : cat.calls[i].pc = "returned"
  /\ exec.pc # "idle" =>
       sel.pc = "returned" /\ \A g \in 1..Len(sel.outs) : sel.outs[g].pc = "done"
  /\ InsightIssued(1) =>
       exec.pc = "returned" /\ \A i \in 1..Len(exec.pipes) : exec.pipes[i].pc = "done"
  /\ gen.pc # "idle" => reqs[1].recCalled /\ reqs[1].failedAt # "insight"
  /\ SaveCalled(1) => gen.pc = "returned"

\* A run has completed whose every stage made calls: three classifications,
\* the selections of two DATA groups, two capability executions, and a
\* generated recommendation of an ACTION group.
C32_Witness ==
  /\ reqs[1].pc = "completed"
  /\ Len(cat.calls) = MaxFlowActions
  /\ Len(sel.outs) >= 2
  /\ Len(exec.pipes) >= 2
  /\ Len(gen.outs) >= 1
  /\ Len(gen.result) >= 1

C34_RecommendationsReferenceTheirAnalysis ==
  \A row \in repo.recommendedActions :
    /\ Cardinality({a \in repo.analysisResults : a.id = row.analysisId}) = 1
    /\ \E k \in 1..Len(repo.saved) :
         /\ repo.saved[k].analysis.id = row.analysisId
         /\ \E j \in 1..Len(repo.saved[k].recommendations) :
              repo.saved[k].recommendations[j].id = row.id

\* One save failed between its two inserts, leaving its Analysis without
\* Recommendations, and another save stored its Recommendations.
C34_Witness ==
  /\ repo.pc = "idle"
  /\ repo.nSaves = 2
  /\ Len(repo.saved) = 1
  /\ Cardinality(repo.analysisResults) = 2
  /\ repo.recommendedActions # {}

\* C35: the error kind of a failed Recommendation tells the cause: it is
\* initialization exactly when no capability of the host has the
\* Recommendation's actionType, and execution for every failure of a
\* Recommendation whose capability the host has.
C35_ErrorTypeByCause ==
  \A id \in Ids : store[id].status = "failed" =>
    /\ store[id].errorType = "initialization" <=> store[id].actionType \notin RuntimeActions
    /\ store[id].actionType \in RuntimeActions => store[id].errorType = "execution"

\* The background executions of Recommendation id that have dispatched its
\* capability to the host.
DispatchesOf(id) == {t \in TaskIds : tasks[t].actionId = id /\ tasks[t].dispatched}

\* C36: whatever accept decisions name a Recommendation, its capability is
\* dispatched at most once.
C36_DispatchedAtMostOnce ==
  \A id \in Ids : Cardinality(DispatchesOf(id)) <= 1

\* C37: a Recommendation whose stored status is rejected has had no dispatch
\* of its capability, and no step taken while it is rejected dispatches it.
C37_RejectedNeverDispatched ==
  /\ [](\A id \in Ids : store[id].status = "rejected" => DispatchesOf(id) = {})
  /\ [][\A id \in Ids : store[id].status = "rejected" =>
            {t \in TaskIds : tasks'[t].actionId = id /\ tasks'[t].dispatched} = {}]_vars

\* C38: every temporary room a run created is eventually passed to a
\* deletion attempt.  Once execute has returned the rooms it created, the
\* run reaches the call of cleanupAnalysisRooms, whether its later stages
\* succeed or fail.
C38_RoomsReachCleanup ==
  \A r \in Runs :
    (reqs[r].rooms > 0) ~> (reqs[r].pc \in {"cleanup", "completed"})

\* C39: every Recommendation the generator returns has the name of the
\* capability it was generated for as its actionType.
C39_ActionTypeIsCapabilityName ==
  \A g \in 1..Len(gen.outs) : \A k \in 1..Len(gen.outs[g].items) :
    gen.outs[g].items[k].pc = "returned" =>
      gen.outs[g].items[k].value[1].actionType = gen.outs[g].items[k].name

\* The positions of the input groups that hold capability `action`.
GroupsOf(action) ==
  {g \in 1..Len(sel.groups) :
     \E k \in 1..Len(sel.groups[g].actions) : sel.groups[g].actions[k] = action}

\* C40: select returns only capabilities of the input groups that the
\* response of their own group names, each at most once.
C40_SelectReturnsOnlyNamed ==
  sel.pc = "returned" =>
    \A i \in 1..Len(sel.relevantActions) :
      /\ GroupsOf(sel.relevantActions[i]) # {}
      /\ \A g \in GroupsOf(sel.relevantActions[i]) :
           sel.relevantActions[i] \in sel.outs[g].relevant
      /\ \A j \in 1..Len(sel.relevantActions) :
           i # j => sel.relevantActions[i] # sel.relevantActions[j]

\* select has returned for two groups: the first response named one of its
\* capabilities, a name no capability has and a capability of the second
\* group, which the second group's own response did not name.
C40_Witness ==
  /\ sel.pc = "returned"
  /\ Len(sel.groups) = 2
  /\ sel.outs[1].relevant =
       {DataGroup(1).actions[1], "UNKNOWN_ACTION", DataGroup(2).actions[1]}
  /\ sel.outs[2].relevant = {DataGroup(2).actions[2]}
  /\ sel.relevantActions = <<DataGroup(1).actions[1], DataGroup(2).actions[2]>>

====
